---------------------------- MODULE Spec2Model ----------------------------
(***************************************************************************)
(* A model of go-taglib's host/guest boundary: the guest-side buffered     *)
(* stream (GoIOStream, taglib.cpp), the host stream callbacks and the      *)
(* lifecycle of Files, module instances and the stream registry            *)
(* (taglib.go), the tag and image write/read paths.                        *)
(*                                                                         *)
(* The module holds several specifications over one set of variables.     *)
(* Each specification moves one group of variables and leaves the others   *)
(* at their idle values:                                                   *)
(*   SpecStream  the operations of one GoIOStream over a fixed source      *)
(*   Spec        Open/OpenStream/Close and the handle operations           *)
(*   SpecPath    the one-shot entry points that take a path                *)
(*   SpecTags    WriteTags/ReadTags on one file                            *)
(*   SpecImage   WriteImageOptions/ReadImageOptions on one file            *)
(*   SpecConc    concurrent ReadTags callers                               *)
(*   SpecRaw     the raw readers (ID3v2, ID3v1, MP4, ASF) on a path        *)
(*   SpecReg     concurrent callers of the stream registry functions       *)
(*   SpecGuest   the guest's handle table in one instance                  *)
(*   SpecMount   the instance each path entry point creates                *)
(*   SpecOrder   OpenStream and File.Close statement by statement          *)
(*   SpecReader  one GoIOStream over a reader that may fail                *)
(*   SpecCallback the host callbacks called with any stream id             *)
(*   SpecString  readString on the bytes of guest memory                   *)
(*   SpecStrings wasmStrings.encode and readStrings on those bytes         *)
(*   SpecLayout  the result records as written and as decoded              *)
(***************************************************************************)
EXTENDS Integers, Sequences, FiniteSets, TLC

VARIABLES
  \* ---- GoIOStream (taglib.cpp:100-211) and the io.ReadSeeker behind it
  srcLen,       \* length of the host byte source
  srcPos,       \* the io.ReadSeeker's own offset
  m_position,   \* GoIOStream::m_position
  m_length,     \* GoIOStream::m_length
  m_buffer,     \* GoIOStream::m_buffer: [alloc, data]
  m_bufStart,   \* GoIOStream::m_bufStart
  m_bufLen,     \* GoIOStream::m_bufLen
  m_readOnly,   \* GoIOStream::m_readOnly
  lastIO,       \* what the last seek/readBlock call did
  \* ---- host process (taglib.go)
  streamRegistry,  \* streamRegistry: stream id -> io.ReadSeeker
  nextStreamId,    \* nextStreamId
  mods,            \* the module instances that outlive a call or a step
  files,           \* every File returned so far, in creation order
  lastCall,        \* what the last public call did and returned
  closedCalls,     \* the instances an export was invoked on after their close
  procs,           \* the callers of a specification: position and locals
  \* ---- one media file as the guest sees it
  properties,      \* its PropertyMap: key -> list of values
  pictures,        \* its "PICTURE" complex property: list of pictures
  lastTags,        \* what the last call, if a tag call, was given and returned
  lastImage        \* the same for an image call

streamVars == <<srcLen, srcPos, m_position, m_length, m_buffer, m_bufStart,
                m_bufLen, m_readOnly, lastIO>>

hostVars == <<streamRegistry, nextStreamId, mods, files, lastCall, closedCalls>>

fileVars == <<properties, pictures, lastTags, lastImage>>

vars == <<streamVars, hostVars, procs, fileVars>>

Min(a, b) == IF a < b THEN a ELSE b

RECURSIVE SumOf(_)
SumOf(seq) == IF seq = <<>> THEN 0 ELSE seq[1] + SumOf(Tail(seq))

(***************************************************************************)
(* Integer widths of the wasm32 guest, scaled: size_t has SizeBits bits    *)
(* here (32 in the build), so that a source longer than a size_t can       *)
(* count fits the model.                                                   *)
(***************************************************************************)
SizeBits == 3
SizeMod == 2^SizeBits

\* static_cast<size_t>(x) of an int64 x.
ToSizeT(x) == x % SizeMod

\* Window size of the guest cache, scaled (32 KiB in the build).
BUFFER_SIZE == 3

\* Bounds of the model.
MaxSrcLen == 9     \* longest byte source
MaxRead == 4       \* largest readBlock length tried

(***************************************************************************)
(* The byte source.  Its content is fixed: the byte at offset i is         *)
(* SrcByte(i); its length is chosen in the initial state.                  *)
(***************************************************************************)
SrcByte(i) == (7 * i + 1) % 251

\* The bytes source[from .. from+n) as a sequence.
SrcBytes(from, n) == [k \in 1..n |-> SrcByte(from + k - 1)]

\* Offsets handed to seek(); whence is 0 = Beginning, 1 = Current, 2 = End.
SeekOffsets == (0 - 2)..(MaxSrcLen + 1)

\* Sizes of the pieces the io.ReadSeeker hands out per Read call: a reader
\* may return fewer bytes than asked for.
ReadChunks == {1, BUFFER_SIZE}

(***************************************************************************)
(* io.ReadSeeker over the source (a bytes.Reader, an *os.File, or any      *)
(* implementation the caller of OpenStream supplies).  What the reader     *)
(* does during one call of the stream is a record rd:                      *)
(*   r        what getStream returns for the stream's id ("nil" when the   *)
(*            id is not registered)                                        *)
(*   chunk    the most bytes one Read hands out                            *)
(*   seekErr  Seek returns an error and leaves the offset where it was     *)
(*   readErr  k > 0: the k-th Read of every refill returns 0 bytes and an  *)
(*            error; 0: no Read fails                                      *)
(***************************************************************************)
\* A reader that is registered and does not fail.
Sound(chunk) ==
  [r |-> "mediaReader", chunk |-> chunk, seekErr |-> FALSE, readErr |-> 0]

\* r.Read(buf) with len(buf) = n at offset pos: the number of bytes read
\* (0 with io.EOF at the end of the source).
ReaderRead(pos, n, chunk) ==
  IF pos >= srcLen \/ n = 0 THEN 0 ELSE Min(Min(n, chunk), srcLen - pos)

\* r.Seek(offset, whence) at offset pos: [ok, pos].
ReaderSeek(pos, offset, whence) ==
  LET abs == CASE whence = 0 -> offset
               [] whence = 1 -> pos + offset
               [] OTHER      -> srcLen + offset
  IN IF abs < 0 THEN [ok |-> FALSE, pos |-> pos]
                ELSE [ok |-> TRUE, pos |-> abs]

(***************************************************************************)
(* Host callbacks (taglib.go:882-940).  In SpecStream the stream is        *)
(* registered for the whole behaviour and its reader is Sound.  Every      *)
(* result carries touched: the callback called a method of the reader.     *)
(***************************************************************************)
\* hostStreamRead, the nth Read of a refill: [n, data, pos, touched]: the
\* bytes written to guest memory at bufPtr and the reader's offset
\* afterwards.
hostStreamRead(rd, pos, length, nth) ==
  IF rd.r = "nil"
  THEN [n |-> 0, data |-> <<>>, pos |-> pos, touched |-> FALSE]
  ELSE IF rd.readErr = nth
  THEN [n |-> 0, data |-> <<>>, pos |-> pos, touched |-> TRUE]
  ELSE LET n == ReaderRead(pos, length, rd.chunk)
       IN [n |-> n, data |-> SrcBytes(pos, n), pos |-> pos + n,
           touched |-> TRUE]

\* hostStreamSeek: [status, pos, touched].
hostStreamSeek(rd, pos, offset, whence) ==
  IF rd.r = "nil"
  THEN [status |-> 0 - 1, pos |-> pos, touched |-> FALSE]
  ELSE LET s == IF rd.seekErr THEN [ok |-> FALSE, pos |-> pos]
                ELSE ReaderSeek(pos, offset, whence)
       IN [status |-> IF s.ok THEN 0 ELSE 0 - 1, pos |-> s.pos,
           touched |-> TRUE]

\* hostStreamTell: [pos64, pos, touched].
hostStreamTell(rd, pos) ==
  IF rd.r = "nil"
  THEN [pos64 |-> 0 - 1, pos |-> pos, touched |-> FALSE]
  ELSE LET s == IF rd.seekErr THEN [ok |-> FALSE, pos |-> pos]
                ELSE ReaderSeek(pos, 0, 1)
       IN [pos64 |-> IF s.ok THEN s.pos ELSE 0 - 1, pos |-> s.pos,
           touched |-> TRUE]

\* hostStreamLength: seek to the end for the length, then restore:
\* [len, pos, touched].
hostStreamLength(rd, pos) ==
  IF rd.r = "nil"
  THEN [len |-> 0 - 1, pos |-> pos, touched |-> FALSE]
  ELSE LET cur == IF rd.seekErr THEN [ok |-> FALSE, pos |-> pos]
                  ELSE ReaderSeek(pos, 0, 1)
           end == ReaderSeek(cur.pos, 0, 2)
           back == ReaderSeek(end.pos, cur.pos, 0)
       IN IF ~cur.ok \/ ~end.ok
          THEN [len |-> 0 - 1, pos |-> pos, touched |-> TRUE]
          ELSE [len |-> end.pos, pos |-> back.pos, touched |-> TRUE]

(***************************************************************************)
(* GoIOStream::refillBuffer (taglib.cpp:180-201).                          *)
(* st is the stream's state [pos, bufStart, bufLen, buf, alloc, hpos]:     *)
(* buf holds the bytes of m_buffer written so far, hpos is the reader's    *)
(* offset.                                                                 *)
(***************************************************************************)
\* The first n bytes of old overwritten by the bytes new (a write at the
\* start of m_buffer).
Overwrite(old, new) ==
  [k \in 1..(IF Len(old) > Len(new) THEN Len(old) ELSE Len(new)) |->
     IF k <= Len(new) THEN new[k] ELSE old[k]]

RECURSIVE RefillReadsOn(_, _, _, _)
\* The read loop without its break on bytesRead == 0: it goes on asking
\* (here: until it has asked twice as often as the window has bytes).
RefillReadsOn(rd, hpos, data, reads) ==
  IF Len(data) >= BUFFER_SIZE \/ reads >= 2 * BUFFER_SIZE
  THEN [data |-> data, hpos |-> hpos, reads |-> reads]
  ELSE LET r == hostStreamRead(rd, hpos, BUFFER_SIZE - Len(data), reads + 1)
       IN RefillReadsOn(rd, r.pos, data \o r.data, reads + 1)

RECURSIVE RefillReadLoop(_, _, _, _)
\* The read loop of refillBuffer: [data, hpos, reads]; data are the bytes
\* written at m_buffer + 0 .. totalRead.
RefillReadLoop(rd, hpos, data, reads) ==
  IF Len(data) >= BUFFER_SIZE
  THEN [data |-> data, hpos |-> hpos, reads |-> reads]
  ELSE LET r == hostStreamRead(rd, hpos, BUFFER_SIZE - Len(data), reads + 1)
       IN IF r.n = 0
          THEN [data |-> data, hpos |-> r.pos, reads |-> reads + 1]
          ELSE RefillReadLoop(rd, r.pos, data \o r.data, reads + 1)

\* Result: [ok, st, reads, from]; the host seek's status is not looked at.
\* from is the reader's offset at which the read loop started.
refillBuffer(st, rd) ==
  LET sk == hostStreamSeek(rd, st.hpos, st.pos, 0)
      lp == RefillReadLoop(rd, sk.pos, <<>>, 0)
      totalRead == Len(lp.data)
  IN IF totalRead = 0
     THEN [ok |-> FALSE, reads |-> lp.reads, from |-> sk.pos,
           st |-> [st EXCEPT !.alloc = TRUE, !.hpos = lp.hpos]]
     ELSE [ok |-> TRUE, reads |-> lp.reads, from |-> sk.pos,
           st |-> [st EXCEPT !.alloc = TRUE, !.hpos = lp.hpos,
                             !.buf = Overwrite(st.buf, lp.data),
                             !.bufStart = st.pos, !.bufLen = totalRead]]

(***************************************************************************)
(* GoIOStream::readBlock (taglib.cpp:123-154).                             *)
(***************************************************************************)
RECURSIVE ReadBlockLoop(_, _, _, _, _)
\* The while loop; cnt counts the refills, the host seeks and the host
\* reads, and lists the position of every refill (starts) and the number of
\* bytes every copy from the window took (copies).
ReadBlockLoop(st, toRead, result, rd, cnt) ==
  IF Len(result) >= toRead
  THEN [st |-> st, result |-> result, refills |-> cnt.refills,
        reads |-> cnt.reads, seeks |-> cnt.seeks, starts |-> cnt.starts,
        copies |-> cnt.copies, refillFailed |-> FALSE]
  ELSE IF st.bufLen > 0 /\ st.pos >= st.bufStart /\ st.pos < st.bufStart + st.bufLen
       THEN LET bufOffset == st.pos - st.bufStart
                bufAvail == st.bufLen - bufOffset
                toCopy == Min(toRead - Len(result), bufAvail)
            IN ReadBlockLoop([st EXCEPT !.pos = st.pos + toCopy], toRead,
                             result \o SubSeq(st.buf, bufOffset + 1, bufOffset + toCopy),
                             rd, [cnt EXCEPT !.copies = Append(@, toCopy)])
       ELSE LET rf == refillBuffer(st, rd)
                c2 == [cnt EXCEPT !.refills = @ + 1, !.reads = @ + rf.reads,
                                  !.seeks = @ + 1,
                                  !.starts = Append(@, st.pos)]
            IN IF rf.ok
               THEN ReadBlockLoop(rf.st, toRead, result, rd, c2)
               ELSE [st |-> rf.st, result |-> result,
                     refills |-> c2.refills, reads |-> c2.reads,
                     seeks |-> c2.seeks, starts |-> c2.starts,
                     copies |-> c2.copies, refillFailed |-> TRUE]

NoCount == [refills |-> 0, reads |-> 0, seeks |-> 0, starts |-> <<>>,
            copies |-> <<>>]

\* readBlock without its final result.resize(totalRead): the result keeps
\* the toRead bytes it was given at the start.
ReadBlockKeepsSize(st, length, rd) ==
  IF length = 0 \/ st.pos >= m_length
  THEN [st |-> st, result |-> <<>>, refills |-> 0, reads |-> 0, seeks |-> 0,
        starts |-> <<>>, copies |-> <<>>, refillFailed |-> FALSE]
  ELSE LET toRead == Min(length, ToSizeT(m_length - st.pos))
           r == ReadBlockLoop(st, toRead, <<>>, rd, NoCount)
       IN [r EXCEPT !.result =
             [k \in 1..toRead |-> IF k <= Len(@) THEN @[k] ELSE 0]]

\* readBlock(length): [st, result, refills, reads, seeks, starts, copies,
\* refillFailed].
readBlock(st, length, rd) ==
  IF length = 0 \/ st.pos >= m_length
  THEN [st |-> st, result |-> <<>>, refills |-> 0, reads |-> 0, seeks |-> 0,
        starts |-> <<>>, copies |-> <<>>, refillFailed |-> FALSE]
  ELSE LET available == ToSizeT(m_length - st.pos)
           toRead == Min(length, available)
       IN ReadBlockLoop(st, toRead, <<>>, rd, NoCount)

(***************************************************************************)
(* GoIOStream::seek (taglib.cpp:162-172): the new m_position.              *)
(***************************************************************************)
seek(offset, p) ==
  LET newPos == CASE p = 0 -> offset
                  [] p = 1 -> m_position + offset
                  [] OTHER -> m_length + offset
      lo == IF newPos < 0 THEN 0 ELSE newPos
  IN IF lo > m_length THEN m_length ELSE lo

StreamState == [pos |-> m_position, bufStart |-> m_bufStart, bufLen |-> m_bufLen,
                buf |-> m_buffer.data, alloc |-> m_buffer.alloc, hpos |-> srcPos]

\* lastIO.inWindow: the call started inside the cached window.
NoIO == [op |-> "none", p |-> 0, n |-> 0, result |-> <<>>, refills |-> 0,
         reads |-> 0, inWindow |-> FALSE]

InWindow == m_bufLen > 0 /\ m_position >= m_bufStart
            /\ m_position < m_bufStart + m_bufLen

\* The state after GoIOStream's constructor (taglib.cpp:104-113) has run on
\* a registered source: m_length is what stream_length reported.
InitStreamVars ==
  /\ srcLen \in 0..MaxSrcLen
  /\ srcPos \in {0, srcLen}
  /\ m_position = 0
  /\ m_length = hostStreamLength(Sound(BUFFER_SIZE), srcPos).len
  /\ m_buffer = [alloc |-> FALSE, data |-> <<>>]
  /\ m_bufStart = 0 - 1
  /\ m_bufLen = 0
  /\ m_readOnly = TRUE
  /\ lastIO = NoIO

\* TagLib calls seek(offset, p).
Seek ==
  /\ \E offset \in SeekOffsets, p \in 0..2 :
       /\ m_position' = seek(offset, p)
       /\ lastIO' = [NoIO EXCEPT !.op = "seek", !.p = m_position, !.n = offset,
                                 !.inWindow = InWindow]
  /\ UNCHANGED <<srcLen, srcPos, m_length, m_buffer, m_bufStart, m_bufLen>>
  /\ UNCHANGED <<m_readOnly, hostVars, procs, fileVars>>

\* TagLib calls readBlock(length).
ReadBlock ==
  /\ \E length \in 0..MaxRead, chunk \in ReadChunks :
       LET r == readBlock(StreamState, length, Sound(chunk))
       IN /\ m_position' = r.st.pos
          /\ m_bufStart' = r.st.bufStart
          /\ m_bufLen' = r.st.bufLen
          /\ m_buffer' = [alloc |-> r.st.alloc, data |-> r.st.buf]
          /\ srcPos' = r.st.hpos
          /\ lastIO' = [op |-> "read", p |-> m_position, n |-> length,
                        result |-> r.result, refills |-> r.refills,
                        reads |-> r.reads, inWindow |-> InWindow]
  /\ UNCHANGED <<srcLen, m_length, m_readOnly>>
  /\ UNCHANGED <<hostVars, procs, fileVars>>

\* The write side of the IOStream interface: empty bodies.
WriteBlockAdvances(st, data) == [st EXCEPT !.pos = @ + Len(data)]

writeBlock(st, data) == st

insert(st, data, start, replace) == st

removeBlock(st, start, length) == st

truncate(st, length) == st

Blocks == {<<>>, <<1>>, <<1, 2>>}

\* A write-side call that leaves the stream as st.
WriteSide(op, st) ==
  /\ m_position' = st.pos
  /\ m_bufStart' = st.bufStart
  /\ m_bufLen' = st.bufLen
  /\ m_buffer' = [alloc |-> st.alloc, data |-> st.buf]
  /\ srcPos' = st.hpos
  /\ lastIO' = [NoIO EXCEPT !.op = op, !.p = m_position, !.inWindow = InWindow]
  /\ UNCHANGED <<srcLen, m_length, m_readOnly>>
  /\ UNCHANGED <<hostVars, procs, fileVars>>

WriteBlock ==
  \E data \in Blocks : WriteSide("writeBlock", writeBlock(StreamState, data))

Insert ==
  \E data \in Blocks, start \in {0, m_position}, replace \in {0, MaxRead} :
    WriteSide("insert", insert(StreamState, data, start, replace))

RemoveBlock ==
  \E start \in {0, m_position}, length \in {0, MaxRead} :
    WriteSide("removeBlock", removeBlock(StreamState, start, length))

Truncate ==
  \E length \in {0, m_position} :
    WriteSide("truncate", truncate(StreamState, length))

NextStream ==
  \/ Seek
  \/ ReadBlock
  \/ WriteBlock
  \/ Insert
  \/ RemoveBlock
  \/ Truncate

(***************************************************************************)
(* Host process: stream registry, module instances and Files (taglib.go). *)
(***************************************************************************)

IdBits == 2                      \* scaled width of nextStreamId (uint32)
IdMod == 2^IdBits
MaxMods == 2                     \* module instances created in one behaviour
MaxCloses == 2                   \* Close calls on one File

Readers == {"mediaReader", "junkReader"}
MediaPath == [dir |-> "/music", name |-> "a.mp3"]
JunkPath == [dir |-> "/tmp", name |-> "junk.txt"]
Paths == {MediaPath, JunkPath}
FlacPath == [dir |-> "/music", name |-> "b.flac"]
NoPath == [dir |-> "", name |-> ""]

\* What can go wrong in one call, in the order the call meets it: the
\* instantiation fails, the guest's malloc gives no buffer for an argument,
\* the export call returns an error, the guest cannot allocate its result,
\* the file cannot be saved.
Faults == {"none", "instantiate", "encode", "call", "result", "save"}

\* What TagLib's FileRef makes of the content: only "media" is openable.
FileKind(path) == IF path \in {MediaPath, FlacPath} THEN "media" ELSE "junk"
ReaderKind(r) == IF r = "mediaReader" THEN "media" ELSE "junk"

EmptyRegistry == [id \in 0..(IdMod - 1) |-> "nil"]

registerStream(reg, next, r) ==
  [id |-> next, reg |-> [reg EXCEPT ![next] = r], next |-> (next + 1) % IdMod]

unregisterStream(reg, id) == [reg EXCEPT ![id] = "nil"]

\* A lookup that hands out the reader last stored under the id although the
\* entry has been deleted.
GetStreamStale(reg, id) == "mediaReader"

getStream(reg, id) == reg[id]

\* A fresh instance: its own handle table and handle counter.
NewInstance(mount, readOnly) ==
  [closed |-> FALSE, mount |-> mount, readOnly |-> readOnly,
   g_handles |-> {}, g_nextHandle |-> 1, nStreams |-> 0, mem |-> <<>>,
   nClosed |-> 0, nGuestClose |-> 0]

NewModuleWritable(dir, readOnly) == NewInstance(dir, FALSE)

newModuleOpt(dir, readOnly) == NewInstance(dir, readOnly)

newModule(dir) == newModuleOpt(dir, FALSE)

newModuleRO(dir) == newModuleOpt(dir, TRUE)

newModuleForStream == NewInstance("none", FALSE)

\* module.close
modClose(inst) == [inst EXCEPT !.closed = TRUE, !.nClosed = @ + 1]

\* The indices of the instances that are not closed.
Live(ms) == {j \in 1..Len(ms) : ~ms[j].closed}

\* Guest side of an open: a null FileRef or a failed allocation of the
\* result gives null (handle 0 on the host); otherwise the next handle.
GuestOpen(inst, kind, stream, resultAlloc) ==
  IF kind # "media" \/ ~resultAlloc
  THEN [inst |-> inst, handle |-> 0]
  ELSE [inst |-> [inst EXCEPT !.g_nextHandle = @ + 1,
                              !.g_handles = @ \cup {[handle |-> inst.g_nextHandle,
                                                     stream |-> stream]}],
        handle |-> inst.g_nextHandle]

\* The stream of a FileHandle opened by path.
nullptr == 0 - 1

taglib_file_open(inst, path, resultAlloc) ==
  GuestOpen(inst, IF inst.mount = path.dir THEN FileKind(path) ELSE "junk",
            nullptr, resultAlloc)

\* GoIOStream reads through the host callbacks: an id the registry does
\* not hold reads as an empty source.
\* nStreams counts the GoIOStream objects alive in the instance.
StreamOpenKeepsWrapper(inst, reg, streamId, resultAlloc) ==
  GuestOpen([inst EXCEPT !.nStreams = @ + 1],
            IF getStream(reg, streamId) = "nil" THEN "junk"
            ELSE ReaderKind(getStream(reg, streamId)),
            streamId, resultAlloc)

taglib_stream_open(inst, reg, streamId, resultAlloc) ==
  LET r == GuestOpen([inst EXCEPT !.nStreams = @ + 1],
                     IF getStream(reg, streamId) = "nil" THEN "junk"
                     ELSE ReaderKind(getStream(reg, streamId)),
                     streamId, resultAlloc)
  IN IF r.handle = 0
     THEN [inst |-> [r.inst EXCEPT !.nStreams = @ - 1], handle |-> 0]
     ELSE r

\* A close that makes the handle number free again.
FileCloseRecycles(inst, handle) ==
  [inst EXCEPT !.g_handles = {h \in @ : h.handle # handle},
               !.g_nextHandle = IF \E h \in inst.g_handles : h.handle = handle
                                THEN handle ELSE @]

taglib_file_close(inst, handle) ==
  [inst EXCEPT !.g_handles = {h \in @ : h.handle # handle},
               !.nStreams = @ - Cardinality({h \in inst.g_handles :
                                              h.handle = handle
                                              /\ h.stream # nullptr})]

get_file_ref(inst, handle) == \E h \in inst.g_handles : h.handle = handle

\* The argument words the host passes at its call of an export, named as
\* the parameters they are meant for.
HostArgs(export) ==
  CASE export = "malloc" -> <<"size">>
    [] export = "taglib_stream_open" -> <<"streamId">>
    [] export = "taglib_file_open" -> <<"filename">>
    [] export = "taglib_file_close" -> <<"handle">>
    [] export = "taglib_handle_tags" -> <<"handle">>
    [] export = "taglib_handle_raw_tags" -> <<"handle">>
    [] export = "taglib_handle_properties" -> <<"handle">>
    [] export = "taglib_handle_image" -> <<"handle", "index">>
    [] export = "taglib_handle_write_tags" -> <<"handle", "tags", "opts">>
    [] export = "taglib_handle_write_image" ->
         <<"handle", "buf", "length", "index", "pictureType", "description",
           "mimeType">>
    [] export \in {"taglib_file_tags", "taglib_file_id3v2_frames",
                   "taglib_file_id3v1_tags", "taglib_file_mp4_atoms",
                   "taglib_file_asf_attributes",
                   "taglib_file_read_properties"} -> <<"filename">>
    [] export = "taglib_file_read_image" -> <<"filename", "index">>
    [] export = "taglib_file_write_tags" -> <<"filename", "tags", "opts">>
    [] export = "taglib_file_write_image" ->
         <<"filename", "buf", "length", "index", "pictureType",
           "description", "mimeType">>

\* The parameters the guest declares for an export.
GuestParams(export) ==
  CASE export = "malloc" -> <<"size">>
    [] export = "taglib_stream_open" -> <<"streamId", "filename", "readStyle">>
    [] export = "taglib_file_open" -> <<"filename", "readStyle">>
    [] export = "taglib_file_close" -> <<"handle">>
    [] export = "taglib_handle_tags" -> <<"handle">>
    [] export = "taglib_handle_raw_tags" -> <<"handle">>
    [] export = "taglib_handle_properties" -> <<"handle">>
    [] export = "taglib_handle_image" -> <<"handle", "index">>
    [] export = "taglib_handle_write_tags" -> <<"handle", "tags", "opts">>
    [] export = "taglib_handle_write_image" ->
         <<"handle", "buf", "length", "index", "pictureType", "description",
           "mimeType">>
    [] export \in {"taglib_file_tags", "taglib_file_id3v2_frames",
                   "taglib_file_id3v1_tags", "taglib_file_mp4_atoms",
                   "taglib_file_asf_attributes",
                   "taglib_file_read_properties"} -> <<"filename">>
    [] export = "taglib_file_read_image" -> <<"filename", "index">>
    [] export = "taglib_file_write_tags" -> <<"filename", "tags", "opts">>
    [] export = "taglib_file_write_image" ->
         <<"filename", "buf", "length", "index", "pictureType",
           "description", "mimeType">>

\* lastCall: the public call that ran last.  exports are the exported
\* functions it invoked, closedExports those it invoked on a closed
\* instance; guestNull says the guest returned its null sentinel, notMedia
\* that the content it was given is no media file; afterClose says its File
\* had been closed before; sameLive and sameReg say it left the live
\* instances and the registry as they were; args are the argument words
\* it passed to each export.
NoCall == [op |-> "none", file |-> 0, err |-> "nil", result |-> "none",
           exports |-> {}, closedExports |-> {}, guestNull |-> FALSE,
           notMedia |-> FALSE, afterClose |-> FALSE, sameLive |-> TRUE,
           sameReg |-> TRUE, args |-> [e \in {} |-> <<>>]]

Called(op, file, err, result, exports, closedExports, afterClose) ==
  [op |-> op, file |-> file, err |-> err, result |-> result,
   exports |-> exports, closedExports |-> closedExports, guestNull |-> FALSE,
   notMedia |-> FALSE, afterClose |-> afterClose, sameLive |-> TRUE,
   sameReg |-> TRUE, args |-> [e \in exports |-> HostArgs(e)]]

\* The same, for a call that ends with instances ms and registry reg.
CalledWith(c, ms, reg) ==
  [c EXCEPT !.sameLive = (Live(ms) = Live(mods)),
            !.sameReg = (reg = streamRegistry)]

NewFile(mod, handle, streamId) ==
  [mod |-> mod, handle |-> handle, format |-> "MPEG", streamId |-> streamId,
   nCloseCalls |-> 0, nUnreg |-> 0]

InitHostVars ==
  /\ streamRegistry = EmptyRegistry
  /\ nextStreamId = 1
  /\ mods = <<>>
  /\ files = <<>>
  /\ lastCall = NoCall
  /\ closedCalls = {}

IdleStreamVars ==
  /\ srcLen = 0 /\ srcPos = 0 /\ m_position = 0 /\ m_length = 0
  /\ m_buffer = [alloc |-> FALSE, data |-> <<>>]
  /\ m_bufStart = 0 - 1 /\ m_bufLen = 0 /\ m_readOnly = TRUE
  /\ lastIO = NoIO

EmptyMap == [k \in {} |-> <<>>]

\* lastTags: n successful WriteTags so far; after a successful WriteTags
\* its arguments T and opts and what ReadTags returned before it (prev);
\* after a ReadTags what it returned (read), op being "WriteThenRead" when
\* the call before it was that WriteTags; after a raw reader the path and
\* the fault it was called with and the map it returned (read).
NoTags == [n |-> 0, op |-> "none", T |-> EmptyMap, opts |-> 0,
           prev |-> EmptyMap, read |-> EmptyMap, path |-> NoPath,
           fault |-> "none"]

\* lastImage: n successful writes so far; the arguments of the last image
\* call, the pictures before it (prev) and, for a read, the bytes returned.
NoImage == [n |-> 0, op |-> "none", index |-> 0, image |-> <<>>,
            pictureType |-> "", description |-> "", mimeType |-> "",
            prev |-> <<>>, read |-> <<>>]

\* A call of another kind leaves only the counts.
ForgetTags == lastTags' = [NoTags EXCEPT !.n = lastTags.n]

ForgetImage == lastImage' = [NoImage EXCEPT !.n = lastImage.n]

\* OpenStream(r).  Its only argument is an integer: nothing to encode.
OpenStream ==
  /\ Len(mods) < MaxMods
  /\ \E r \in Readers, fault \in Faults \ {"encode", "save"} :
       LET instOk == fault # "instantiate"
           callOk == fault # "call"
           resultAlloc == fault # "result"
           reg == registerStream(streamRegistry, nextStreamId, r)
           streamId == reg.id
           mod == newModuleForStream
           g == taglib_stream_open(mod, reg.reg, streamId, resultAlloc)
           export == {"taglib_stream_open"}
       IN /\ nextStreamId' = reg.next
          /\ IF ~instOk
             THEN /\ streamRegistry' = unregisterStream(reg.reg, streamId)
                  /\ UNCHANGED <<mods, files>>
                  /\ lastCall' = CalledWith(
                       Called("OpenStream", 0, "init module", "none", {}, {},
                              FALSE), mods', streamRegistry')
             ELSE IF ~callOk
             THEN /\ mods' = Append(mods, modClose(mod))
                  /\ streamRegistry' = unregisterStream(reg.reg, streamId)
                  /\ UNCHANGED files
                  /\ lastCall' = CalledWith(
                       Called("OpenStream", 0, "call", "none", export, {},
                              FALSE), mods', streamRegistry')
             ELSE IF g.handle = 0
             THEN /\ mods' = Append(mods, modClose(g.inst))
                  /\ streamRegistry' = unregisterStream(reg.reg, streamId)
                  /\ UNCHANGED files
                  /\ lastCall' = CalledWith(
                       [Called("OpenStream", 0, "ErrInvalidFile", "none",
                               export, {}, FALSE)
                        EXCEPT !.guestNull = TRUE,
                               !.notMedia = (ReaderKind(r) # "media")],
                       mods', streamRegistry')
             ELSE /\ mods' = Append(mods, g.inst)
                  /\ streamRegistry' = reg.reg
                  /\ files' = Append(files, NewFile(Len(mods) + 1, g.handle,
                                                    streamId))
                  /\ lastCall' = CalledWith(
                       Called("OpenStream", Len(files) + 1, "nil", "file",
                              export, {}, FALSE), mods', streamRegistry')
  /\ UNCHANGED <<closedCalls, streamVars, procs, fileVars>>

\* openFile(path, readOnly).  When the guest's malloc gives no buffer for
\* the path, module.malloc panics and the call unwinds out of openFile
\* with the instance still open.
openFile(op, path, readOnly, fault) ==
  LET instOk == fault # "instantiate"
      mallocOk == fault # "encode"
      callOk == fault # "call"
      resultAlloc == fault # "result"
      mod == newModuleOpt(path.dir, readOnly)
      g == taglib_file_open(mod, path, resultAlloc)
      exports == {"malloc", "taglib_file_open"}
  IN IF ~instOk
     THEN /\ UNCHANGED <<mods, files>>
          /\ lastCall' = Called(op, 0, "init module", "none", {}, {}, FALSE)
     ELSE IF ~mallocOk
     THEN /\ mods' = Append(mods, mod)
          /\ UNCHANGED files
          /\ lastCall' = CalledWith(
               Called(op, 0, "panic", "none", {"malloc"}, {}, FALSE),
               mods', streamRegistry)
     ELSE IF ~callOk
     THEN /\ mods' = Append(mods, modClose(mod))
          /\ UNCHANGED files
          /\ lastCall' = CalledWith(
               Called(op, 0, "call", "none", exports, {}, FALSE),
               mods', streamRegistry)
     ELSE IF g.handle = 0
     THEN /\ mods' = Append(mods, modClose(g.inst))
          /\ UNCHANGED files
          /\ lastCall' = CalledWith(
               [Called(op, 0, "ErrInvalidFile", "none", exports, {}, FALSE)
                EXCEPT !.guestNull = TRUE,
                       !.notMedia = (FileKind(path) # "media")],
               mods', streamRegistry)
     ELSE /\ mods' = Append(mods, g.inst)
          /\ files' = Append(files, NewFile(Len(mods) + 1, g.handle, 0))
          /\ lastCall' = CalledWith(
               Called(op, Len(files) + 1, "nil", "file", exports, {}, FALSE),
               mods', streamRegistry)

Open ==
  /\ Len(mods) < MaxMods
  /\ \E path \in Paths, fault \in Faults \ {"save"} :
       openFile("Open", path, FALSE, fault)
  /\ ForgetTags /\ ForgetImage
  /\ UNCHANGED <<streamRegistry, nextStreamId, closedCalls>>
  /\ UNCHANGED <<streamVars, procs, properties, pictures>>

OpenReadOnly ==
  /\ Len(mods) < MaxMods
  /\ \E path \in Paths, fault \in Faults \ {"save"} :
       openFile("OpenReadOnly", path, TRUE, fault)
  /\ ForgetTags /\ ForgetImage
  /\ UNCHANGED <<streamRegistry, nextStreamId, closedCalls>>
  /\ UNCHANGED <<streamVars, procs, properties, pictures>>

\* Close without its early return.
CloseUnguarded(f) == FALSE

\* The early return of File.Close.
CloseGuard(f) == f.handle = 0

\* File.Close on the i-th File.  The error of the guest call is dropped.
Close ==
  /\ \E i \in 1..Len(files), callOk \in BOOLEAN :
       LET f == files[i]
           inst == mods[f.mod]
           invoked == [inst EXCEPT !.nGuestClose = @ + 1]
           closedInst == inst.closed
           ran == IF callOk /\ ~closedInst
                  THEN taglib_file_close(invoked, f.handle) ELSE invoked
       IN /\ f.nCloseCalls < MaxCloses
          /\ IF CloseGuard(f)
             THEN /\ files' = [files EXCEPT ![i].nCloseCalls = @ + 1]
                  /\ UNCHANGED <<mods, streamRegistry, closedCalls>>
                  /\ lastCall' = Called("Close", i, "nil", "none", {}, {},
                                        f.nCloseCalls > 0)
             ELSE /\ mods' = [mods EXCEPT ![f.mod] = modClose(ran)]
                  /\ files' = [files EXCEPT ![i].handle = 0,
                                            ![i].streamId = 0,
                                            ![i].nCloseCalls = @ + 1,
                                            ![i].nUnreg =
                                               IF f.streamId # 0 THEN @ + 1
                                               ELSE @]
                  /\ streamRegistry' =
                       IF f.streamId # 0
                       THEN unregisterStream(streamRegistry, f.streamId)
                       ELSE streamRegistry
                  /\ closedCalls' =
                       IF closedInst
                       THEN closedCalls \cup {f.mod}
                       ELSE closedCalls
                  /\ lastCall' = CalledWith(
                       Called("Close", i, "nil", "none", {"taglib_file_close"},
                              IF closedInst THEN {"taglib_file_close"} ELSE {},
                              f.nCloseCalls > 0), mods', streamRegistry')
  /\ UNCHANGED <<nextStreamId, streamVars, procs, fileVars>>

\* Tags, RawTags, Properties and Image on the i-th File: one export call
\* with f.handle, on f.mod whatever its state.  callErr is what the method
\* returns when module.call reports an error.
HandleRead(op, export, callErr) ==
  /\ \E i \in 1..Len(files), callOk \in BOOLEAN :
       LET f == files[i]
           inst == mods[f.mod]
           failed == inst.closed \/ ~callOk
           found == get_file_ref(inst, f.handle)
       IN /\ closedCalls' = IF inst.closed
                            THEN closedCalls \cup {f.mod}
                            ELSE closedCalls
          /\ lastCall' = Called(op, i, IF failed THEN callErr ELSE "nil",
                                IF ~failed /\ found THEN "data" ELSE "nil",
                                {export},
                                IF inst.closed THEN {export} ELSE {},
                                f.nCloseCalls > 0)
  /\ UNCHANGED <<streamRegistry, nextStreamId, mods, files>>
  /\ UNCHANGED <<streamVars, procs, fileVars>>

Tags == HandleRead("Tags", "taglib_handle_tags", "nil")

RawTags == HandleRead("RawTags", "taglib_handle_raw_tags", "nil")

Properties == HandleRead("Properties", "taglib_handle_properties", "nil")

Image == HandleRead("Image", "taglib_handle_image", "call")

\* File.WriteTags and File.WriteImage on the i-th File: the arguments are
\* first copied into guest memory through the malloc export (a failure
\* panics), then the export runs.  A stream or a read-only mount cannot
\* be saved.
HandleWrite(op, export) ==
  /\ \E i \in 1..Len(files), fault \in {"none", "encode", "call", "save"} :
       LET mallocOk == fault # "encode"
           callOk == fault # "call"
           saveOk == fault # "save"
           f == files[i]
           inst == mods[f.mod]
           found == get_file_ref(inst, f.handle)
           writable == inst.mount # "none" /\ ~inst.readOnly
           after == f.nCloseCalls > 0
       IN IF inst.closed
          THEN /\ closedCalls' = closedCalls \cup {f.mod}
               /\ lastCall' = Called(op, i, "panic", "none", {"malloc"},
                                     {"malloc"}, after)
          ELSE /\ UNCHANGED closedCalls
               /\ lastCall' =
                    IF ~mallocOk
                    THEN Called(op, i, "panic", "none", {"malloc"}, {}, after)
                    ELSE IF ~callOk
                    THEN Called(op, i, "call", "none", {"malloc", export}, {},
                                after)
                    ELSE Called(op, i,
                                IF found /\ writable /\ saveOk THEN "nil"
                                ELSE "ErrSavingFile",
                                "none", {"malloc", export}, {}, after)
  /\ UNCHANGED <<streamRegistry, nextStreamId, mods, files>>
  /\ UNCHANGED <<streamVars, procs, fileVars>>

WriteTagsOnFile == HandleWrite("WriteTags", "taglib_handle_write_tags")

WriteImageOnFile == HandleWrite("WriteImage", "taglib_handle_write_image")

IdleProcs == procs = <<>>

IdleFileVars ==
  /\ properties = EmptyMap /\ pictures = <<>>
  /\ lastTags = NoTags
  /\ lastImage = NoImage

Init == InitHostVars /\ IdleStreamVars /\ IdleProcs /\ IdleFileVars

Next ==
  \/ OpenStream
  \/ Open
  \/ OpenReadOnly
  \/ Close
  \/ Tags
  \/ RawTags
  \/ Properties
  \/ Image
  \/ WriteTagsOnFile
  \/ WriteImageOnFile

Spec == Init /\ [][Next]_vars

InitStream == InitStreamVars /\ InitHostVars /\ IdleProcs /\ IdleFileVars

SpecStream == InitStream /\ [][NextStream]_vars

(***************************************************************************)
(* One GoIOStream over a reader that may fail and whose id may leave the   *)
(* registry while the guest still holds the stream.  OpenStream has        *)
(* registered the reader (taglib.go:119) and the constructor has asked     *)
(* for its length (taglib.cpp:108); the reader's Seek may have failed      *)
(* then, which leaves m_length = -1.                                       *)
(***************************************************************************)
ReaderSrcLens == {0, 5}          \* lengths of the byte source
ReadLengths == {0, 1, MaxRead}   \* lengths handed to readBlock

\* The registration OpenStream made for this stream.
Registered == registerStream(EmptyRegistry, 1, "mediaReader")

m_streamId == Registered.id

\* What the reader may do during one call: nothing wrong, short reads, a
\* failing Seek, a failing first Read, a Read that fails after one byte.
ReaderBehaviours ==
  LET r == getStream(streamRegistry, m_streamId)
  IN {[r |-> r, chunk |-> BUFFER_SIZE, seekErr |-> FALSE, readErr |-> 0],
      [r |-> r, chunk |-> 1, seekErr |-> FALSE, readErr |-> 0],
      [r |-> r, chunk |-> BUFFER_SIZE, seekErr |-> TRUE, readErr |-> 0],
      [r |-> r, chunk |-> BUFFER_SIZE, seekErr |-> FALSE, readErr |-> 1],
      [r |-> r, chunk |-> 1, seekErr |-> FALSE, readErr |-> 2]}

InitReader ==
  /\ srcLen \in ReaderSrcLens
  /\ srcPos \in {0, srcLen}
  /\ m_position = 0
  /\ \E seekErr \in BOOLEAN :
       m_length = hostStreamLength([Sound(BUFFER_SIZE) EXCEPT
                                      !.seekErr = seekErr], srcPos).len
  /\ m_buffer = [alloc |-> FALSE, data |-> <<>>]
  /\ m_bufStart = 0 - 1
  /\ m_bufLen = 0
  /\ m_readOnly = TRUE
  /\ lastIO = NoIO
  /\ streamRegistry = Registered.reg
  /\ nextStreamId = Registered.next
  /\ mods = <<>> /\ files = <<>> /\ lastCall = NoCall /\ closedCalls = {}
  /\ IdleProcs /\ IdleFileVars

\* Offsets handed to seek() in this specification.
ReaderSeekOffsets == {0 - 1, 1, BUFFER_SIZE}

\* TagLib calls seek(offset, p).
SeekTo ==
  /\ \E offset \in ReaderSeekOffsets, p \in 0..2 :
       /\ m_position' = seek(offset, p)
       /\ lastIO' = [NoIO EXCEPT !.op = "seek", !.p = m_position]
  /\ UNCHANGED <<srcLen, srcPos, m_length, m_buffer, m_bufStart, m_bufLen>>
  /\ UNCHANGED <<m_readOnly, hostVars, procs, fileVars>>

\* TagLib calls readBlock(length) while the reader behaves as rd.
ReadBlockOf ==
  /\ \E length \in ReadLengths, rd \in ReaderBehaviours :
       LET r == readBlock(StreamState, length, rd)
       IN /\ m_position' = r.st.pos
          /\ m_bufStart' = r.st.bufStart
          /\ m_bufLen' = r.st.bufLen
          /\ m_buffer' = [alloc |-> r.st.alloc, data |-> r.st.buf]
          /\ srcPos' = r.st.hpos
          /\ lastIO' = [op |-> "read", p |-> m_position, n |-> length,
                        result |-> r.result, refills |-> r.refills,
                        reads |-> r.reads, inWindow |-> InWindow,
                        seeks |-> r.seeks, starts |-> r.starts,
                        copies |-> r.copies,
                        refillFailed |-> r.refillFailed,
                        found |-> rd.r # "nil", seekErr |-> rd.seekErr]
  /\ UNCHANGED <<srcLen, m_length, m_readOnly>>
  /\ UNCHANGED <<hostVars, procs, fileVars>>

\* The stream's id leaves the registry (unregisterStream called for it by
\* another goroutine's Close or failed OpenStream that was given the same
\* id).
UnregisterStream ==
  /\ getStream(streamRegistry, m_streamId) # "nil"
  /\ streamRegistry' = unregisterStream(streamRegistry, m_streamId)
  /\ lastIO' = NoIO
  /\ UNCHANGED <<srcLen, srcPos, m_position, m_length, m_buffer, m_bufStart,
                 m_bufLen, m_readOnly>>
  /\ UNCHANGED <<nextStreamId, mods, files, lastCall, closedCalls, procs,
                 fileVars>>

NextReader ==
  \/ SeekTo
  \/ ReadBlockOf
  \/ UnregisterStream

SpecReader == InitReader /\ [][NextReader]_vars

(***************************************************************************)
(* The four host callbacks (taglib.go:882-940) called with any id, while   *)
(* ids enter and leave the registry.  All registered ids stand for the     *)
(* one byte source of the model.  lastIO is what the last callback         *)
(* returned and did: n, status, pos64 and len are the values returned,     *)
(* data the bytes written to guest memory, touched whether a method of     *)
(* the reader ran, before the reader's offset before the call.             *)
(***************************************************************************)
MaxCallbackSrc == 3              \* longest byte source here

Ids == 0..(IdMod - 1)

NoCallback == [op |-> "none", id |-> 0, registered |-> FALSE, n |-> 0,
               data |-> <<>>, status |-> 0, pos64 |-> 0, len |-> 0,
               touched |-> FALSE, before |-> 0]

\* The reader as the callback for id finds it.
ReaderOf(id, seekErr, readErr) ==
  [r |-> getStream(streamRegistry, id), chunk |-> BUFFER_SIZE,
   seekErr |-> seekErr, readErr |-> readErr]

CallbackUnchanged ==
  UNCHANGED <<srcLen, m_position, m_length, m_buffer, m_bufStart, m_bufLen,
              m_readOnly, mods, files, lastCall, closedCalls, procs, fileVars>>

InitCallback ==
  /\ srcLen \in 0..MaxCallbackSrc
  /\ srcPos \in 0..srcLen
  /\ m_position = 0 /\ m_length = 0
  /\ m_buffer = [alloc |-> FALSE, data |-> <<>>]
  /\ m_bufStart = 0 - 1 /\ m_bufLen = 0 /\ m_readOnly = TRUE
  /\ lastIO = NoCallback
  /\ InitHostVars /\ IdleProcs /\ IdleFileVars

\* registerStream(r) by some OpenStream, before nextStreamId wraps.
CallbackRegister ==
  /\ nextStreamId # 0
  /\ LET reg == registerStream(streamRegistry, nextStreamId, "mediaReader")
     IN /\ streamRegistry' = reg.reg
        /\ nextStreamId' = reg.next
  /\ lastIO' = NoCallback
  /\ UNCHANGED srcPos
  /\ CallbackUnchanged

\* unregisterStream(id) by some Close or failed OpenStream.
CallbackUnregister ==
  /\ \E id \in Ids :
       /\ streamRegistry[id] # "nil"
       /\ streamRegistry' = unregisterStream(streamRegistry, id)
  /\ lastIO' = NoCallback
  /\ UNCHANGED <<srcPos, nextStreamId>>
  /\ CallbackUnchanged

\* The guest calls go_stream_read(id, bufPtr, length).
CallRead ==
  /\ \E id \in Ids, length \in 0..BUFFER_SIZE, readErr \in 0..1 :
       LET r == hostStreamRead(ReaderOf(id, FALSE, readErr), srcPos, length, 1)
       IN /\ srcPos' = r.pos
          /\ lastIO' = [NoCallback EXCEPT
                          !.op = "read", !.id = id,
                          !.registered = (streamRegistry[id] # "nil"),
                          !.n = r.n, !.data = r.data, !.touched = r.touched,
                          !.before = srcPos]
  /\ UNCHANGED <<streamRegistry, nextStreamId>>
  /\ CallbackUnchanged

\* The guest calls go_stream_seek(id, offset, whence).
CallSeek ==
  /\ \E id \in Ids, offset \in (0 - 1)..MaxCallbackSrc, whence \in 0..2,
        seekErr \in BOOLEAN :
       LET r == hostStreamSeek(ReaderOf(id, seekErr, 0), srcPos, offset, whence)
       IN /\ srcPos' = r.pos
          /\ lastIO' = [NoCallback EXCEPT
                          !.op = "seek", !.id = id,
                          !.registered = (streamRegistry[id] # "nil"),
                          !.status = r.status, !.touched = r.touched,
                          !.before = srcPos]
  /\ srcPos' <= 2 * MaxCallbackSrc
  /\ UNCHANGED <<streamRegistry, nextStreamId>>
  /\ CallbackUnchanged

\* The guest calls go_stream_tell(id).
CallTell ==
  /\ \E id \in Ids, seekErr \in BOOLEAN :
       LET r == hostStreamTell(ReaderOf(id, seekErr, 0), srcPos)
       IN /\ srcPos' = r.pos
          /\ lastIO' = [NoCallback EXCEPT
                          !.op = "tell", !.id = id,
                          !.registered = (streamRegistry[id] # "nil"),
                          !.pos64 = r.pos64, !.touched = r.touched,
                          !.before = srcPos]
  /\ UNCHANGED <<streamRegistry, nextStreamId>>
  /\ CallbackUnchanged

\* The guest calls go_stream_length(id).
CallLength ==
  /\ \E id \in Ids, seekErr \in BOOLEAN :
       LET r == hostStreamLength(ReaderOf(id, seekErr, 0), srcPos)
       IN /\ srcPos' = r.pos
          /\ lastIO' = [NoCallback EXCEPT
                          !.op = "length", !.id = id,
                          !.registered = (streamRegistry[id] # "nil"),
                          !.len = r.len, !.touched = r.touched,
                          !.before = srcPos]
  /\ UNCHANGED <<streamRegistry, nextStreamId>>
  /\ CallbackUnchanged

NextCallback ==
  \/ CallbackRegister
  \/ CallbackUnregister
  \/ CallRead
  \/ CallSeek
  \/ CallTell
  \/ CallLength

SpecCallback == InitCallback /\ [][NextCallback]_vars

(***************************************************************************)
(* One-shot path entry points (taglib.go:453-640, 669-709, 801-820).  Each *)
(* creates a read-only instance, defers its close, calls one export with   *)
(* the encoded path and decodes the result; the instance is gone when the  *)
(* call returns, also when encoding panics.                                *)
(***************************************************************************)
\* An index is a Go int; wasmInt.encode passes uint64(index) and the
\* guest's int parameter is the low 32 bits of it, as a signed number.
\* The width is scaled.
IntBits == 3
IntMod == 2^IntBits
ToInt(i) == ((i + IntMod \div 2) % IntMod) - IntMod \div 2

MaxIndex == 1
Indexes == (0 - 1)..(IntMod + MaxIndex)

Picture(data, pictureType, description, mimeType) ==
  [data |-> data, pictureType |-> pictureType, description |-> description,
   mimeType |-> mimeType]

\* The guest's answer for a FileRef on path, as null or not null.
\* taglib_file_tags and the raw readers: null for a null FileRef or a
\* failed allocation of the row array.
RowsNull(path, resultAlloc) == FileKind(path) # "media" \/ ~resultAlloc

read_file_properties_null(path, resultAlloc) ==
  FileKind(path) # "media" \/ ~resultAlloc

\* read_image on a non-null FileRef whose pictures are pics.
read_image(pics, index) ==
  IF pics = <<>> \/ index < 0 \/ index >= Len(pics)
  THEN [null |-> TRUE, data |-> <<>>]
  ELSE [null |-> FALSE, data |-> pics[index + 1].data]

\* Remove(s, i): s without its element at 0-based index i.
Remove(s, i) == SubSeq(s, 1, i) \o SubSeq(s, i + 2, Len(s))

\* write_image up to file.save, on a non-null FileRef.
write_image(pics, buf, index, pictureType, description, mimeType) ==
  IF Len(buf) = 0
  THEN IF index >= 0 /\ index < Len(pics) THEN Remove(pics, index) ELSE pics
  ELSE IF index >= 0 /\ index < Len(pics)
  THEN [pics EXCEPT ![index + 1] =
                      Picture(buf, pictureType, description, mimeType)]
  ELSE Append(pics, Picture(buf, pictureType, description, mimeType))

\* The common shape: nullErr and nullResult are what the entry point
\* returns when the decoded guest result is nil.
PathCall(op, export, path, fault, isNull, nullErr, nullResult) ==
  LET instOk == fault # "instantiate"
      mallocOk == fault # "encode"
      callOk == fault # "call"
      exports == {"malloc", export}
  IN IF ~instOk
     THEN Called(op, 0, "init module", "none", {}, {}, FALSE)
     ELSE IF ~mallocOk
     THEN Called(op, 0, "panic", "none", {"malloc"}, {}, FALSE)
     ELSE IF ~callOk
     THEN Called(op, 0, "call", "none", exports, {}, FALSE)
     ELSE IF isNull
     THEN [Called(op, 0, nullErr, nullResult, exports, {}, FALSE)
           EXCEPT !.guestNull = TRUE,
                  !.notMedia = (FileKind(path) # "media")]
     ELSE Called(op, 0, "nil", "data", exports, {}, FALSE)

\* ReadProperties has no test of the decoded result: a null result leaves
\* raw zero-valued and the call returns it with a nil error.
ReadProperties ==
  /\ \E path \in Paths, fault \in Faults \ {"save"} :
       lastCall' = PathCall("ReadProperties", "taglib_file_read_properties",
                            path, fault,
                            read_file_properties_null(path, fault # "result"),
                            "nil", "zero")
  /\ ForgetTags /\ ForgetImage
  /\ UNCHANGED <<streamRegistry, nextStreamId, mods, files, closedCalls>>
  /\ UNCHANGED <<streamVars, procs, properties, pictures>>

MaxImageWrites == 2              \* successful image writes in a behaviour

Images == {<<>>, <<1>>, <<2, 3>>}
ImageTypes == {"Front Cover", "Back Cover"}
Descriptions == {"", "added"}
MimeTypes == {"image/png"}

InitialPictures ==
  {<<>>,
   <<Picture(<<7>>, "Front Cover", "The first image", "image/jpeg")>>,
   <<Picture(<<7>>, "Front Cover", "The first image", "image/jpeg"),
     Picture(<<8, 9>>, "Back Cover", "The second image", "image/png")>>}

\* ReadImageOptions (ReadImage is index 0) returns img, nil whatever img:
\* a null result leaves img nil.
ReadImageOfPath ==
  /\ \E path \in Paths, index \in Indexes, fault \in Faults \ {"save"} :
       LET img == read_image(pictures, ToInt(index))
           isNull == FileKind(path) # "media" \/ img.null \/ fault = "result"
           c == PathCall("ReadImageOptions", "taglib_file_read_image", path,
                         fault, isNull, "nil", "nil")
       IN /\ lastCall' = c
          /\ lastImage' =
               IF c.err = "nil" /\ FileKind(path) = "media"
               THEN [NoImage EXCEPT !.n = lastImage.n, !.op = "ReadImage",
                                    !.index = index, !.prev = pictures,
                                    !.read = IF isNull THEN <<>> ELSE img.data]
               ELSE [NoImage EXCEPT !.n = lastImage.n]
  /\ UNCHANGED <<streamRegistry, nextStreamId, mods, files, closedCalls>>
  /\ ForgetTags
  /\ UNCHANGED <<streamVars, procs, properties, pictures>>

\* The arguments tried in a call: all where the call reaches write_image,
\* one where it fails whatever they are.
WrittenImages(path, fault) ==
  IF FileKind(path) = "media" /\ fault = "none"
  THEN [image : Images, index : Indexes, pictureType : ImageTypes,
        description : Descriptions, mimeType : MimeTypes]
  ELSE {[image |-> <<>>, index |-> 0, pictureType |-> "", description |-> "",
         mimeType |-> ""]}

\* WriteImageOptions(path, image, index, imageType, description, mimeType).
WriteImageOfPath ==
  /\ lastImage.n < MaxImageWrites
  /\ \E path \in Paths, fault \in Faults \ {"result"} :
       \E a \in WrittenImages(path, fault) :
         LET exports == {"malloc", "taglib_file_write_image"}
             out == FileKind(path) = "media" /\ fault # "save"
             done == fault = "none" /\ out
         IN /\ lastCall' =
                 IF fault = "instantiate"
                 THEN Called("WriteImageOptions", 0, "init module", "none",
                             {}, {}, FALSE)
                 ELSE IF fault = "encode"
                 THEN Called("WriteImageOptions", 0, "panic", "none",
                             {"malloc"}, {}, FALSE)
                 ELSE IF fault = "call"
                 THEN Called("WriteImageOptions", 0, "call", "none", exports,
                             {}, FALSE)
                 ELSE Called("WriteImageOptions", 0,
                             IF out THEN "nil" ELSE "ErrSavingFile", "none",
                             exports, {}, FALSE)
            /\ pictures' =
                 IF done
                 THEN write_image(pictures, a.image, ToInt(a.index),
                                  a.pictureType, a.description, a.mimeType)
                 ELSE pictures
            /\ lastImage' =
                 IF done
                 THEN [n |-> lastImage.n + 1, op |-> "WriteImage",
                       index |-> a.index, image |-> a.image,
                       pictureType |-> a.pictureType,
                       description |-> a.description,
                       mimeType |-> a.mimeType, prev |-> pictures,
                       read |-> <<>>]
                 ELSE [NoImage EXCEPT !.n = lastImage.n]
  /\ UNCHANGED <<streamRegistry, nextStreamId, mods, files, closedCalls>>
  /\ ForgetTags
  /\ UNCHANGED <<streamVars, procs, properties>>

InitImage ==
  /\ InitHostVars /\ IdleStreamVars /\ IdleProcs
  /\ properties = EmptyMap /\ lastTags = NoTags
  /\ pictures \in InitialPictures
  /\ lastImage = NoImage

NextImage == WriteImageOfPath \/ ReadImageOfPath

SpecImage == InitImage /\ [][NextImage]_vars

(***************************************************************************)
(* Tags of the media file.  Strings are sequences of character codes, so   *)
(* that the separators of the wire format and the C-string terminator are  *)
(* ordinary characters of keys and values.  The codes used are ASCII, on   *)
(* which the UTF-8 conversions of both sides are the identity.  TagLib's   *)
(* PropertyMap is taken as a map that stores what replace() is given.      *)
(***************************************************************************)
NUL == 0
TAB == 9
VT == 11
CLEAR == 1

\* Position of the first c in s, 0 when there is none.
IndexOf(s, c) ==
  IF \E i \in 1..Len(s) : s[i] = c
  THEN CHOOSE i \in 1..Len(s) : s[i] = c /\ \A j \in 1..(i - 1) : s[j] # c
  ELSE 0

\* A Go string written with a trailing NUL and read back as a C string, or
\* a TagLib string copied with strdup(c_str()) and read up to its NUL.
CString(s) == IF IndexOf(s, NUL) = 0 THEN s ELSE SubSeq(s, 1, IndexOf(s, NUL) - 1)

RECURSIVE Join(_, _)
\* strings.Join
Join(vs, sep) ==
  IF vs = <<>> THEN <<>>
  ELSE IF Len(vs) = 1 THEN vs[1]
  ELSE vs[1] \o <<sep>> \o Join(Tail(vs), sep)

\* fmt.Sprintf("%s\t%s", k, strings.Join(vs, "\v"))
Row(k, vs) == k \o <<TAB>> \o Join(vs, VT)

RECURSIVE split(_, _)
\* TagLib::String::split: the pieces between the separators, empty ones kept.
split(str, sep) ==
  IF IndexOf(str, sep) = 0 THEN <<str>>
  ELSE <<SubSeq(str, 1, IndexOf(str, sep) - 1)>>
       \o split(SubSeq(str, IndexOf(str, sep) + 1, Len(str)), sep)

\* strings.Cut(row, "\t")
Cut(row) ==
  IF IndexOf(row, TAB) = 0 THEN [k |-> row, v |-> <<>>, ok |-> FALSE]
  ELSE [k |-> SubSeq(row, 1, IndexOf(row, TAB) - 1),
        v |-> SubSeq(row, IndexOf(row, TAB) + 1, Len(row)), ok |-> TRUE]

\* An erase that leaves the key in place.
EraseNothing(props, key) == props

\* PropertyMap: a function from its keys to value lists.
erase(props, key) == [k \in (DOMAIN props) \ {key} |-> props[k]]

replace(props, key, values) ==
  [k \in (DOMAIN props) \cup {key} |-> IF k = key THEN values ELSE props[k]]

RECURSIVE WriteTagsLoop(_, _)
\* write_tags: for (size_t i = 0; tags[i]; i++)
WriteTagsLoop(props, tags) ==
  IF tags = <<>> THEN props
  ELSE LET row == CString(tags[1])
           ti == IndexOf(row, TAB)
           key == SubSeq(row, 1, ti - 1)
           value == SubSeq(row, ti + 1, Len(row))
       IN WriteTagsLoop(IF ti = 0 THEN props
                        ELSE IF value = <<>> THEN erase(props, key)
                        ELSE replace(props, key, split(value, VT)),
                        Tail(tags))

\* write_tags without its test of the CLEAR bit.
WriteTagsNoClear(props, tags, opts) == WriteTagsLoop(props, tags)

\* write_tags up to file.setProperties.
write_tags(props, tags, opts) ==
  WriteTagsLoop(IF opts % 2 = CLEAR THEN EmptyMap ELSE props, tags)

RECURSIVE StrLess(_, _)
\* TagLib::String::operator<, the order of the PropertyMap's keys.
StrLess(a, b) ==
  IF b = <<>> THEN FALSE
  ELSE IF a = <<>> THEN TRUE
  ELSE a[1] < b[1] \/ (a[1] = b[1] /\ StrLess(Tail(a), Tail(b)))

RECURSIVE SortedKeys(_)
SortedKeys(S) ==
  IF S = {} THEN <<>>
  ELSE LET first == CHOOSE k \in S : \A j \in S \ {k} : StrLess(k, j)
       IN <<first>> \o SortedKeys(S \ {first})

RECURSIVE SerializeLoop(_, _)
\* serialize_properties: one row per value, keys in map order.
SerializeLoop(props, keys) ==
  IF keys = <<>> THEN <<>>
  ELSE [i \in 1..Len(props[keys[1]]) |->
          CString(keys[1] \o <<TAB>> \o props[keys[1]][i])]
       \o SerializeLoop(props, Tail(keys))

serialize_properties(props) == SerializeLoop(props, SortedKeys(DOMAIN props))

RECURSIVE TagsFromRows(_, _)
\* The loop of ReadTags over the decoded rows.
TagsFromRows(tags, raw) ==
  IF raw = <<>> THEN tags
  ELSE LET c == Cut(raw[1])
       IN TagsFromRows(IF ~c.ok THEN tags
                       ELSE replace(tags, c.k,
                                    IF c.k \in DOMAIN tags
                                    THEN Append(tags[c.k], c.v)
                                    ELSE <<c.v>>),
                       Tail(raw))

\* What ReadTags returns for a file holding props.
TagsOf(props) == TagsFromRows(EmptyMap, serialize_properties(props))

MaxKeys == 2                     \* keys in one WriteTags call
MaxWrites == 1                   \* successful WriteTags calls in a behaviour

TagKeys == {<<65>>, <<66>>, <<65, TAB, 66>>}
ValueLists == {<<>>, <<<<>>>>, <<<<120>>>>, <<<<120>>, <<121>>>>,
               <<<<120, VT, 121>>>>, <<<<120, NUL, 121>>>>}
TagSets ==
  UNION {[D -> ValueLists] : D \in {E \in SUBSET TagKeys : Cardinality(E) <= MaxKeys}}
Opts == {0, CLEAR}

\* The orders in which Go may range over a map with key set S.
Orders(S) ==
  {o \in [1..Cardinality(S) -> S] : \A i, j \in 1..Cardinality(S) :
                                       o[i] = o[j] => i = j}

\* What the media file holds at start.
InitialTags ==
  {EmptyMap,
   (<<65>> :> <<<<120>>>>) @@ (<<67>> :> <<<<121>>>>),
   (<<65>> :> <<<<121>>>>) @@ (<<66>> :> <<<<121>>, <<120>>>>)
     @@ (<<67>> :> <<<<121>>>>)}

(***************************************************************************)
(* The raw readers (taglib.go:491-640, taglib.cpp:1003-1420).  The tags of *)
(* the MP3 file are held as ID3v2 and ID3v1 tags, whose frames are taken   *)
(* to be keyed as the properties are; the FLAC file holds no tag of the    *)
(* four raw kinds.                                                         *)
(***************************************************************************)
RawPaths == Paths \cup {FlacPath}

\* The raw kinds the dynamic casts of the guest find in a file.
TagKinds(path) == IF path = MediaPath THEN {"ID3v2", "ID3v1"} ELSE {}

\* One row for every frame, in the order of the frame list map.
frame_rows(props) == SerializeLoop(props, SortedKeys(DOMAIN props))

RawRowsNullIfAbsent(path, kind, props, resultAlloc) ==
  IF FileKind(path) # "media" \/ ~resultAlloc
     \/ kind \notin TagKinds(path) \/ props = EmptyMap
  THEN [null |-> TRUE, rows |-> <<>>]
  ELSE [null |-> FALSE, rows |-> frame_rows(props)]

\* The guest side of a raw reader: null for a null FileRef or a failed
\* allocation, the array holding only its terminator when the file has no
\* tag of the kind or the tag no frame, else the rows of the frames.
raw_rows(path, kind, props, resultAlloc) ==
  IF FileKind(path) # "media" \/ ~resultAlloc
  THEN [null |-> TRUE, rows |-> <<>>]
  ELSE IF kind \notin TagKinds(path) \/ props = EmptyMap
  THEN [null |-> FALSE, rows |-> <<>>]
  ELSE [null |-> FALSE, rows |-> frame_rows(props)]

\* The loop of a raw reader over the decoded rows: strings.SplitN(row,
\* "\t", 2) cuts at the first TAB as strings.Cut does.
FramesFromRows(raw) == TagsFromRows(EmptyMap, raw)

RowsReader(op, export, kind) ==
  /\ \E path \in RawPaths, fault \in Faults \ {"save"} :
       LET g == raw_rows(path, kind, properties, fault # "result")
           c == PathCall(op, export, path, fault, g.null, "ErrInvalidFile",
                         "nil")
       IN /\ lastCall' = c
          /\ lastTags' =
               [NoTags EXCEPT !.n = lastTags.n, !.op = op, !.path = path,
                              !.fault = fault,
                              !.read = IF c.result = "data"
                                       THEN FramesFromRows(g.rows)
                                       ELSE EmptyMap]
  /\ ForgetImage
  /\ UNCHANGED <<streamRegistry, nextStreamId, mods, files, closedCalls>>
  /\ UNCHANGED <<streamVars, procs, properties, pictures>>

ReadID3v2Frames ==
  RowsReader("ReadID3v2Frames", "taglib_file_id3v2_frames", "ID3v2")

ReadID3v1Frames ==
  RowsReader("ReadID3v1Frames", "taglib_file_id3v1_tags", "ID3v1")

ReadMP4Atoms == RowsReader("ReadMP4Atoms", "taglib_file_mp4_atoms", "MP4")

ReadASFAttributes ==
  RowsReader("ReadASFAttributes", "taglib_file_asf_attributes", "ASF")

RawKind ==
  [ReadID3v2Frames |-> "ID3v2", ReadID3v1Frames |-> "ID3v1",
   ReadMP4Atoms |-> "MP4", ReadASFAttributes |-> "ASF"]

\* ReadTags(path).
ReadTagsOfPath ==
  /\ \E path \in Paths, fault \in Faults \ {"save"} :
       LET c == PathCall("ReadTags", "taglib_file_tags", path, fault,
                         RowsNull(path, fault # "result"), "ErrInvalidFile",
                         "nil")
       IN /\ lastCall' = c
          /\ lastTags' =
               IF c.result # "data" THEN [NoTags EXCEPT !.n = lastTags.n]
               ELSE IF lastTags.op = "WriteTags"
               THEN [lastTags EXCEPT !.op = "WriteThenRead",
                                     !.read = TagsOf(properties)]
               ELSE [NoTags EXCEPT !.n = lastTags.n, !.op = "ReadTags",
                                   !.read = TagsOf(properties)]
  /\ UNCHANGED <<streamRegistry, nextStreamId, mods, files, closedCalls>>
  /\ ForgetImage
  /\ UNCHANGED <<streamVars, procs, properties, pictures>>

\* The tag sets tried in a call: all of them where the call gets as far as
\* the guest's loop over the rows, one where it fails whatever the rows.
WrittenSets(path, fault) ==
  IF FileKind(path) = "media" /\ fault = "none" THEN TagSets ELSE {EmptyMap}

\* WriteTags(path, tags, opts): a writable instance, its close deferred;
\* the rows are built in the order Go ranges over the map.  A file that
\* is not media, or that cannot be saved, gives ErrSavingFile.
WriteTagsOfPath ==
  /\ lastTags.n < MaxWrites
  /\ \E path \in Paths, fault \in Faults \ {"result"} :
       \E T \in WrittenSets(path, fault), opts \in Opts :
       \E order \in Orders(DOMAIN T) :
         LET raw == [i \in 1..Len(order) |-> Row(order[i], T[order[i]])]
             exports == {"malloc", "taglib_file_write_tags"}
             out == FileKind(path) = "media" /\ fault # "save"
             done == fault = "none" /\ out
         IN /\ lastCall' =
                 IF fault = "instantiate"
                 THEN Called("WriteTags", 0, "init module", "none", {}, {},
                             FALSE)
                 ELSE IF fault = "encode"
                 THEN Called("WriteTags", 0, "panic", "none", {"malloc"}, {},
                             FALSE)
                 ELSE IF fault = "call"
                 THEN Called("WriteTags", 0, "call", "none", exports, {},
                             FALSE)
                 ELSE Called("WriteTags", 0,
                             IF out THEN "nil" ELSE "ErrSavingFile", "none",
                             exports, {}, FALSE)
            /\ properties' = IF done THEN write_tags(properties, raw, opts)
                             ELSE properties
            /\ lastTags' =
                 IF done
                 THEN [NoTags EXCEPT !.n = lastTags.n + 1, !.op = "WriteTags",
                                     !.T = T, !.opts = opts,
                                     !.prev = TagsOf(properties)]
                 ELSE [NoTags EXCEPT !.n = lastTags.n]
  /\ UNCHANGED <<streamRegistry, nextStreamId, mods, files, closedCalls>>
  /\ ForgetImage
  /\ UNCHANGED <<streamVars, procs, pictures>>

InitTags ==
  /\ InitHostVars /\ IdleStreamVars /\ IdleProcs
  /\ properties \in InitialTags
  /\ pictures = <<>> /\ lastTags = NoTags /\ lastImage = NoImage

NextTags == WriteTagsOfPath \/ ReadTagsOfPath

SpecTags == InitTags /\ [][NextTags]_vars

NextRaw ==
  \/ WriteTagsOfPath
  \/ ReadID3v2Frames
  \/ ReadID3v1Frames
  \/ ReadMP4Atoms
  \/ ReadASFAttributes

SpecRaw == InitTags /\ [][NextRaw]_vars

\* The last call was a raw reader on a file the guest opens and in which it
\* finds no tag of the reader's kind, or a tag without frames.
AbsentData ==
  /\ lastCall.op \in DOMAIN RawKind
  /\ FileKind(lastTags.path) = "media"
  /\ \/ RawKind[lastCall.op] \notin TagKinds(lastTags.path)
     \/ properties = EmptyMap

(***************************************************************************)
(* C11.  A raw reader called on a file that the guest opens but that holds *)
(* no tag of the reader's kind (another format, or tags cleared by a       *)
(* write) returns a non-nil empty map and a nil error; a raw reader        *)
(* returns ErrInvalidFile only when the guest's result is null.  (The      *)
(* first part is about calls in which neither the instantiation nor an     *)
(* allocation nor the guest call fails.)                                   *)
(***************************************************************************)
C11_AbsentDataIsEmptyNotInvalid ==
  /\ (AbsentData /\ lastTags.fault = "none") =>
       /\ lastCall.err = "nil" /\ lastCall.result = "data"
       /\ lastTags.read = EmptyMap
  /\ (lastCall.op \in DOMAIN RawKind /\ lastCall.err = "ErrInvalidFile") =>
       lastCall.guestNull

\* ReadID3v2Frames on the MP3 file after a write has cleared its tags.
AbsentAfterClear ==
  /\ lastCall.op = "ReadID3v2Frames" /\ lastTags.path = MediaPath
  /\ lastTags.n > 0 /\ properties = EmptyMap
  /\ lastCall.err = "nil" /\ lastTags.read = EmptyMap

(***************************************************************************)
(* Concurrent ReadTags calls (taglib.go:453-484; TestConcurrent).  Every   *)
(* goroutine is a process of procs; its call is cut at the points where    *)
(* the host enters the guest, so that the steps of different calls         *)
(* interleave.  The files are valid media files and instantiation, the     *)
(* guest allocator and the guest call do not fail.  An instance's memory   *)
(* is the sequence of the blocks allocated in it, a pointer the index of   *)
(* a block, 0 the null pointer.                                            *)
(***************************************************************************)
MaxProcs == 3

Procs == 1..MaxProcs

\* The files the callers rotate over, and what each of them holds.
ConcPaths ==
  {MediaPath, FlacPath,
   [dir |-> "/other", name |-> "c.ogg"]}

Stored(path) ==
  IF path = MediaPath THEN (<<65>> :> <<<<97>>>>)
  ELSE IF path.dir = "/music" THEN (<<65>> :> <<<<98>>>> @@ <<66>> :> <<<<98>>>>)
  ELSE (<<65>> :> <<<<99>>, <<100>>>>)

StringBlock(path) == [kind |-> "string", str |-> path, rows |-> <<>>]

RowsBlock(rows) == [kind |-> "rows", str |-> NoPath, rows |-> rows]

NoProc ==
  [pc |-> "idle", path |-> NoPath, mod |-> 0, arg |-> 0, raw |-> 0,
   tags |-> EmptyMap, err |-> "nil"]

\* rt.InstantiateModule hands every caller a new anonymous instance.
InstantiateShared(ms, inst) ==
  IF ms = <<>> THEN [mods |-> <<inst>>, mod |-> 1]
  ELSE [mods |-> ms, mod |-> 1]

InstantiateModule(ms, inst) == [mods |-> Append(ms, inst), mod |-> Len(ms) + 1]

\* The exported malloc, as a bump allocator of blocks.
malloc(inst, block) ==
  [inst |-> [inst EXCEPT !.mem = Append(@, block)], ptr |-> Len(inst.mem) + 1]

\* taglib_file_tags: a FileRef on the name at filename, seen through the
\* instance's mount; null when it does not open.
taglib_file_tags(inst, filename) ==
  LET name == inst.mem[filename].str
  IN IF inst.mount # name.dir \/ name \notin ConcPaths
     THEN [inst |-> inst, ptr |-> 0]
     ELSE malloc(inst, RowsBlock(serialize_properties(Stored(name))))

\* readStrings at ptr.
readStrings(inst, ptr) == inst.mem[ptr].rows

ProcsUnchanged ==
  UNCHANGED <<streamRegistry, nextStreamId, files, lastCall, closedCalls,
              streamVars, fileVars>>

\* ReadTags up to newModuleRO(dir).
ConcStart ==
  /\ \E p \in Procs, path \in ConcPaths :
       /\ procs[p].pc = "idle"
       /\ LET r == InstantiateModule(mods, newModuleOpt(path.dir, TRUE))
          IN /\ mods' = r.mods
             /\ procs' = [procs EXCEPT ![p].pc = "encode", ![p].path = path,
                                       ![p].mod = r.mod]
  /\ ProcsUnchanged

\* module.call: wasmString.encode of the path.
ConcEncode ==
  /\ \E p \in Procs :
       /\ procs[p].pc = "encode"
       /\ LET a == malloc(mods[procs[p].mod], StringBlock(procs[p].path))
          IN /\ mods' = [mods EXCEPT ![procs[p].mod] = a.inst]
             /\ procs' = [procs EXCEPT ![p].pc = "call", ![p].arg = a.ptr]
  /\ ProcsUnchanged

\* module.call: the call of the export; a closed instance fails it.
ConcCall ==
  /\ \E p \in Procs :
       /\ procs[p].pc = "call"
       /\ IF mods[procs[p].mod].closed
          THEN /\ procs' = [procs EXCEPT ![p].pc = "close", ![p].err = "call"]
               /\ UNCHANGED mods
          ELSE LET r == taglib_file_tags(mods[procs[p].mod], procs[p].arg)
               IN /\ mods' = [mods EXCEPT ![procs[p].mod] = r.inst]
                  /\ procs' = [procs EXCEPT ![p].pc = "decode",
                                            ![p].raw = r.ptr]
  /\ ProcsUnchanged

\* module.call: wasmStrings.decode, then the loop over the rows.
ConcDecode ==
  /\ \E p \in Procs :
       /\ procs[p].pc = "decode"
       /\ procs' =
            IF procs[p].raw = 0
            THEN [procs EXCEPT ![p].pc = "close", ![p].err = "ErrInvalidFile"]
            ELSE [procs EXCEPT ![p].pc = "close",
                               ![p].tags =
                                 TagsFromRows(EmptyMap,
                                              readStrings(mods[procs[p].mod],
                                                          procs[p].raw))]
  /\ UNCHANGED mods
  /\ ProcsUnchanged

\* The deferred mod.close().
ConcClose ==
  /\ \E p \in Procs :
       /\ procs[p].pc = "close"
       /\ mods' = [mods EXCEPT ![procs[p].mod] = modClose(@)]
       /\ procs' = [procs EXCEPT ![p].pc = "done"]
  /\ ProcsUnchanged

InitConc ==
  /\ InitHostVars /\ IdleStreamVars /\ IdleFileVars
  /\ procs = [p \in Procs |-> NoProc]

NextConc == ConcStart \/ ConcEncode \/ ConcCall \/ ConcDecode \/ ConcClose

SpecConc == InitConc /\ [][NextConc]_vars

\* The blocks of the instance process p runs in.
BlocksOf(p) ==
  {mods[procs[p].mod].mem[i] : i \in 1..Len(mods[procs[p].mod].mem)}

(***************************************************************************)
(* C6.  Whatever the interleaving of concurrent ReadTags calls on valid    *)
(* files, every call runs in an instance no other call runs in, whose      *)
(* handle table and memory hold nothing of another call; it ends without   *)
(* error and returns the tags of the file it was given.                    *)
(***************************************************************************)
C6_ConcurrentReadsIsolated ==
  \A p \in Procs :
    procs[p].mod # 0 =>
      /\ \A q \in Procs \ {p} : procs[q].mod # procs[p].mod
      /\ mods[procs[p].mod].g_handles = {}
      /\ BlocksOf(p) \subseteq
           {StringBlock(procs[p].path),
            RowsBlock(serialize_properties(Stored(procs[p].path)))}
      /\ procs[p].err = "nil"
      /\ procs[p].pc \in {"close", "done"} =>
           procs[p].tags = TagsOf(Stored(procs[p].path))

\* A call that began after another one, on another file, has returned while
\* the other one, its rows decoded, is still open.
Overtaken ==
  \E p, q \in Procs :
    /\ procs[p].pc = "done" /\ procs[q].pc = "close"
    /\ procs[p].mod > procs[q].mod
    /\ procs[p].path # procs[q].path
    /\ procs[p].tags # procs[q].tags

(***************************************************************************)
(* Concurrent callers of the stream registry (taglib.go:853-879).  Every   *)
(* caller registers a reader, looks its id up, unregisters it and looks    *)
(* it up again, any number of times.  The calls are cut into the           *)
(* statements of their bodies; streamRegistryMu is held by the callers     *)
(* whose position is inside a body.  procs holds the callers (proc) and    *)
(* the ids returned so far, in the order of the returns (issued).          *)
(***************************************************************************)
MaxRegProcs == 2

RegProcs == 1..MaxRegProcs

\* Registrations in one behaviour: enough for the counter to wrap.
MaxRegs == IdMod + 1

NoCaller == [pc |-> "idle", r |-> "nil", id |-> 0, held |-> FALSE,
             got |-> "none"]

Writers(ps) ==
  {p \in RegProcs : ps[p].pc \in {"reg_read", "reg_inc", "reg_store", "unreg_del"}}

\* A getStream that keeps its read lock until the callback has returned.
RLockersThroughSource(ps) ==
  {p \in RegProcs : ps[p].pc \in {"get_read", "source"}}

RLockers(ps) == {p \in RegProcs : ps[p].pc = "get_read"}

\* streamRegistryMu.Lock() and RLock() return.
Lock(ps) == Writers(ps) = {} /\ RLockers(ps) = {}

RLock(ps) == Writers(ps) = {}

RegUnchanged ==
  UNCHANGED <<mods, files, lastCall, closedCalls, streamVars, fileVars>>

\* registerStream: Lock.
RegisterLock ==
  /\ Len(procs.issued) < MaxRegs
  /\ Lock(procs.proc)
  /\ \E p \in RegProcs, r \in Readers :
       /\ procs.proc[p].pc = "idle" /\ ~procs.proc[p].held
       /\ procs' = [procs EXCEPT !.proc[p] =
                      [NoCaller EXCEPT !.pc = "reg_read", !.r = r]]
  /\ UNCHANGED <<streamRegistry, nextStreamId>>
  /\ RegUnchanged

\* id := nextStreamId
RegisterRead ==
  /\ \E p \in RegProcs :
       /\ procs.proc[p].pc = "reg_read"
       /\ procs' = [procs EXCEPT
                      !.proc[p].pc = "reg_inc",
                      !.proc[p].id =
                        registerStream(streamRegistry, nextStreamId,
                                       procs.proc[p].r).id]
  /\ UNCHANGED <<streamRegistry, nextStreamId>>
  /\ RegUnchanged

\* nextStreamId++
RegisterInc ==
  /\ \E p \in RegProcs :
       /\ procs.proc[p].pc = "reg_inc"
       /\ nextStreamId' =
            registerStream(streamRegistry, nextStreamId, procs.proc[p].r).next
       /\ procs' = [procs EXCEPT !.proc[p].pc = "reg_store"]
  /\ UNCHANGED streamRegistry
  /\ RegUnchanged

\* streamRegistry[id] = r; Unlock; return id
RegisterStore ==
  /\ \E p \in RegProcs :
       /\ procs.proc[p].pc = "reg_store"
       /\ streamRegistry' =
            [streamRegistry EXCEPT ![procs.proc[p].id] = procs.proc[p].r]
       /\ procs' = [procs EXCEPT !.proc[p].pc = "idle",
                                 !.proc[p].held = TRUE,
                                 !.issued = Append(@, procs.proc[p].id)]
  /\ UNCHANGED nextStreamId
  /\ RegUnchanged

\* unregisterStream(id): Lock.
UnregisterLock ==
  /\ Lock(procs.proc)
  /\ \E p \in RegProcs :
       /\ procs.proc[p].pc = "idle" /\ procs.proc[p].held
       /\ procs' = [procs EXCEPT !.proc[p].pc = "unreg_del",
                                 !.proc[p].got = "none"]
  /\ UNCHANGED <<streamRegistry, nextStreamId>>
  /\ RegUnchanged

\* delete(streamRegistry, id); Unlock
UnregisterDelete ==
  /\ \E p \in RegProcs :
       /\ procs.proc[p].pc = "unreg_del"
       /\ streamRegistry' = unregisterStream(streamRegistry, procs.proc[p].id)
       /\ procs' = [procs EXCEPT !.proc[p].pc = "idle",
                                 !.proc[p].held = FALSE]
  /\ UNCHANGED nextStreamId
  /\ RegUnchanged

\* getStream(id): RLock, for the id the caller was given last.
GetStreamRLock ==
  /\ RLock(procs.proc)
  /\ \E p \in RegProcs :
       /\ procs.proc[p].pc = "idle" /\ procs.proc[p].r # "nil"
       /\ procs.proc[p].got = "none"
       /\ procs' = [procs EXCEPT !.proc[p].pc = "get_read"]
  /\ UNCHANGED <<streamRegistry, nextStreamId>>
  /\ RegUnchanged

\* return streamRegistry[id]; RUnlock
GetStreamRead ==
  /\ \E p \in RegProcs :
       /\ procs.proc[p].pc = "get_read"
       /\ procs' = [procs EXCEPT
                      !.proc[p].pc = "idle",
                      !.proc[p].got = getStream(streamRegistry,
                                                procs.proc[p].id)]
  /\ UNCHANGED <<streamRegistry, nextStreamId>>
  /\ RegUnchanged

\* A host callback that got a reader from getStream calls r.Read or r.Seek,
\* which may take any time.
SourceCall ==
  /\ \E p \in RegProcs :
       /\ procs.proc[p].pc = "idle"
       /\ procs.proc[p].got \notin {"none", "nil"}
       /\ procs' = [procs EXCEPT !.proc[p].pc = "source"]
  /\ UNCHANGED <<streamRegistry, nextStreamId>>
  /\ RegUnchanged

\* r.Read or r.Seek returns and the callback with it.
SourceReturn ==
  /\ \E p \in RegProcs :
       /\ procs.proc[p].pc = "source"
       /\ procs' = [procs EXCEPT !.proc[p].pc = "idle",
                                 !.proc[p].got = "none"]
  /\ UNCHANGED <<streamRegistry, nextStreamId>>
  /\ RegUnchanged

InitReg ==
  /\ InitHostVars /\ IdleStreamVars /\ IdleFileVars
  /\ procs = [proc |-> [p \in RegProcs |-> NoCaller], issued |-> <<>>]

NextReg ==
  \/ RegisterLock
  \/ RegisterRead
  \/ RegisterInc
  \/ RegisterStore
  \/ UnregisterLock
  \/ UnregisterDelete
  \/ GetStreamRLock
  \/ GetStreamRead
  \/ SourceCall
  \/ SourceReturn

SpecReg == InitReg /\ [][NextReg]_vars

(***************************************************************************)
(* The guest alone (taglib.cpp:223-343): one instance, driven by any       *)
(* sequence of its open and close exports.  The host itself opens once in  *)
(* every instance; here the driver opens as often as MaxOpens allows.      *)
(* procs holds the driver's record: the handles it was given, in order     *)
(* (issued), and its last call with the instance as it was before (last).  *)
(***************************************************************************)
MaxOpens == 3

NoGuestCall == [op |-> "none", handle |-> 0, before |-> newModuleForStream]

\* The streams the registry holds for the guest to open.
GuestRegistry ==
  [EmptyRegistry EXCEPT ![1] = "mediaReader", ![2] = "junkReader"]

\* What the driver records of an open that returned r.
Opened(op, r) ==
  [issued |-> IF r.handle = 0 THEN procs.issued
              ELSE Append(procs.issued, r.handle),
   last |-> [op |-> op, handle |-> r.handle, before |-> mods[1]]]

GuestUnchanged ==
  UNCHANGED <<streamRegistry, nextStreamId, files, lastCall, closedCalls,
              streamVars, fileVars>>

GuestFileOpen ==
  /\ Len(procs.issued) < MaxOpens
  /\ \E path \in Paths, resultAlloc \in BOOLEAN :
       LET r == taglib_file_open(mods[1], path, resultAlloc)
       IN /\ mods' = <<r.inst>>
          /\ procs' = Opened("taglib_file_open", r)
  /\ GuestUnchanged

GuestStreamOpen ==
  /\ Len(procs.issued) < MaxOpens
  /\ \E streamId \in DOMAIN streamRegistry, resultAlloc \in BOOLEAN :
       LET r == taglib_stream_open(mods[1], streamRegistry, streamId,
                                   resultAlloc)
       IN /\ mods' = <<r.inst>>
          /\ procs' = Opened("taglib_stream_open", r)
  /\ GuestUnchanged

GuestFileClose ==
  /\ \E handle \in 0..MaxOpens :
       /\ mods' = <<taglib_file_close(mods[1], handle)>>
       /\ procs' = [procs EXCEPT !.last = [op |-> "taglib_file_close",
                                           handle |-> handle,
                                           before |-> mods[1]]]
  /\ GuestUnchanged

InitGuest ==
  /\ IdleStreamVars /\ IdleFileVars
  /\ streamRegistry = GuestRegistry
  /\ nextStreamId = 3
  /\ mods \in {<<newModuleOpt(MediaPath.dir, FALSE)>>, <<newModuleForStream>>}
  /\ files = <<>> /\ lastCall = NoCall /\ closedCalls = {}
  /\ procs = [issued |-> <<>>, last |-> NoGuestCall]

NextGuest == GuestFileOpen \/ GuestStreamOpen \/ GuestFileClose

SpecGuest == InitGuest /\ [][NextGuest]_vars

(***************************************************************************)
(* The instance every entry point creates (taglib.go:104-846): which of    *)
(* newModule, newModuleRO and newModuleForStream it calls, and on what     *)
(* directory.  One call of one entry point: procs holds the entry point,   *)
(* its path and the position of the call.                                  *)
(***************************************************************************)
OggPath == [dir |-> "/other", name |-> "c.ogg"]

MountPaths == {MediaPath, FlacPath, OggPath, JunkPath}

\* filepath.Dir(path)
Dir(path) == path.dir

PathEntryPoints ==
  {"Open", "OpenReadOnly", "ReadTags", "ReadID3v2Frames", "ReadID3v1Frames",
   "ReadMP4Atoms", "ReadASFAttributes", "ReadProperties", "ReadImage",
   "ReadImageOptions", "WriteTags", "WriteID3v2Frames", "WriteImage",
   "WriteImageOptions"}

RECURSIVE ModuleFor(_, _)
\* The instance the entry point op creates when called with path.
ModuleFor(op, path) ==
  CASE op = "OpenStream" -> newModuleForStream
    [] op = "Open" -> newModule(Dir(path))
    [] op = "OpenReadOnly" -> newModuleRO(Dir(path))
    [] op = "ReadTags" -> newModuleRO(Dir(path))
    [] op = "ReadID3v2Frames" -> newModuleRO(Dir(path))
    [] op = "ReadID3v1Frames" -> newModuleRO(Dir(path))
    [] op = "ReadMP4Atoms" -> newModuleRO(Dir(path))
    [] op = "ReadASFAttributes" -> newModuleRO(Dir(path))
    [] op = "ReadProperties" -> newModuleRO(Dir(path))
    [] op = "ReadImage" -> ModuleFor("ReadImageOptions", path)
    [] op = "ReadImageOptions" -> newModuleRO(Dir(path))
    [] op = "WriteTags" -> newModule(Dir(path))
    [] op = "WriteID3v2Frames" -> newModule(Dir(path))
    [] op = "WriteImage" -> ModuleFor("WriteImageOptions", path)
    [] op = "WriteImageOptions" -> newModule(Dir(path))

MountUnchanged ==
  UNCHANGED <<streamRegistry, nextStreamId, files, lastCall, closedCalls,
              streamVars, fileVars>>

\* The entry point creates its instance.
Instantiate ==
  /\ procs.pc = "start"
  /\ mods' = <<ModuleFor(procs.op, procs.path)>>
  /\ procs' = [procs EXCEPT !.pc = "open"]
  /\ MountUnchanged

\* mod.close(), deferred by the one-shot entry points, in File.Close for
\* the others.
CloseInstance ==
  /\ procs.pc = "open"
  /\ mods' = <<modClose(mods[1])>>
  /\ procs' = [procs EXCEPT !.pc = "closed"]
  /\ MountUnchanged

InitMount ==
  /\ InitHostVars /\ IdleStreamVars /\ IdleFileVars
  /\ procs \in
       {[pc |-> "start", op |-> "OpenStream", path |-> NoPath]}
       \cup [pc : {"start"}, op : PathEntryPoints, path : MountPaths]

NextMount == Instantiate \/ CloseInstance

SpecMount == InitMount /\ [][NextMount]_vars

(***************************************************************************)
(* OpenStream and File.Close statement by statement (taglib.go:118-145,    *)
(* 184-197), so that the states between the registry calls and the calls   *)
(* on the instance are states of the model.  One goroutine opens streams   *)
(* and closes the Files it was given, MaxMods times at most.  procs holds  *)
(* its position and locals, the number of OpenStream calls begun (round)   *)
(* and, for every instance of mods, the stream id it was created for       *)
(* (ids).                                                                  *)
(***************************************************************************)
NoRun == [pc |-> "idle", r |-> "nil", streamId |-> 0, mod |-> 0, file |-> 0,
          fault |-> "none", round |-> 0, ids |-> <<>>]

OrderUnchanged == UNCHANGED <<lastCall, closedCalls, streamVars, fileVars>>

\* streamId := registerStream(r)
OpenStreamRegister ==
  /\ procs.pc = "idle" /\ procs.round < MaxMods
  /\ \E r \in Readers, fault \in Faults \ {"encode", "save"} :
       LET reg == registerStream(streamRegistry, nextStreamId, r)
       IN /\ streamRegistry' = reg.reg
          /\ nextStreamId' = reg.next
          /\ procs' = [procs EXCEPT !.pc = "instantiate", !.r = r,
                                    !.streamId = reg.id, !.fault = fault,
                                    !.round = @ + 1]
  /\ UNCHANGED <<mods, files>>
  /\ OrderUnchanged

\* mod, err := newModuleForStream()
OpenStreamInstantiate ==
  /\ procs.pc = "instantiate"
  /\ IF procs.fault = "instantiate"
     THEN /\ procs' = [procs EXCEPT !.pc = "unregister"]
          /\ UNCHANGED mods
     ELSE /\ mods' = Append(mods, newModuleForStream)
          /\ procs' = [procs EXCEPT !.pc = "call", !.mod = Len(mods) + 1,
                                    !.ids = Append(@, procs.streamId)]
  /\ UNCHANGED <<streamRegistry, nextStreamId, files>>
  /\ OrderUnchanged

\* mod.call("taglib_stream_open", ...) and the test of result.handle
OpenStreamCall ==
  /\ procs.pc = "call"
  /\ LET g == taglib_stream_open(mods[procs.mod], streamRegistry,
                                 procs.streamId, procs.fault # "result")
     IN IF procs.fault = "call"
        THEN /\ procs' = [procs EXCEPT !.pc = "close"]
             /\ UNCHANGED <<mods, files>>
        ELSE IF g.handle = 0
        THEN /\ mods' = [mods EXCEPT ![procs.mod] = g.inst]
             /\ procs' = [procs EXCEPT !.pc = "close"]
             /\ UNCHANGED files
        ELSE /\ mods' = [mods EXCEPT ![procs.mod] = g.inst]
             /\ files' = Append(files, NewFile(procs.mod, g.handle,
                                               procs.streamId))
             /\ procs' = [procs EXCEPT !.pc = "idle"]
  /\ UNCHANGED <<streamRegistry, nextStreamId>>
  /\ OrderUnchanged

\* mod.close() on a failure path
OpenStreamClose ==
  /\ procs.pc = "close"
  /\ mods' = [mods EXCEPT ![procs.mod] = modClose(@)]
  /\ procs' = [procs EXCEPT !.pc = "unregister"]
  /\ UNCHANGED <<streamRegistry, nextStreamId, files>>
  /\ OrderUnchanged

\* unregisterStream(streamId); return nil, err
OpenStreamUnregister ==
  /\ procs.pc = "unregister"
  /\ streamRegistry' = unregisterStream(streamRegistry, procs.streamId)
  /\ procs' = [procs EXCEPT !.pc = "idle"]
  /\ UNCHANGED <<nextStreamId, mods, files>>
  /\ OrderUnchanged

\* File.Close up to f.handle = 0
CloseHandle ==
  /\ procs.pc = "idle"
  /\ \E i \in 1..Len(files) :
       /\ ~CloseGuard(files[i])
       /\ mods' = [mods EXCEPT ![files[i].mod] =
                     taglib_file_close(@, files[i].handle)]
       /\ files' = [files EXCEPT ![i].handle = 0, ![i].nCloseCalls = @ + 1]
       /\ procs' = [procs EXCEPT !.pc = "close_unregister", !.file = i]
  /\ UNCHANGED <<streamRegistry, nextStreamId>>
  /\ OrderUnchanged

\* if f.streamId != 0 { unregisterStream(f.streamId); f.streamId = 0 }
CloseUnregister ==
  /\ procs.pc = "close_unregister"
  /\ LET f == files[procs.file]
     IN /\ streamRegistry' = IF f.streamId # 0
                             THEN unregisterStream(streamRegistry, f.streamId)
                             ELSE streamRegistry
        /\ files' = [files EXCEPT ![procs.file].streamId = 0,
                                  ![procs.file].nUnreg =
                                     IF f.streamId # 0 THEN @ + 1 ELSE @]
  /\ procs' = [procs EXCEPT !.pc = "close_mod"]
  /\ UNCHANGED <<nextStreamId, mods>>
  /\ OrderUnchanged

\* f.mod.close(); return nil
CloseModule ==
  /\ procs.pc = "close_mod"
  /\ mods' = [mods EXCEPT ![files[procs.file].mod] = modClose(@)]
  /\ procs' = [procs EXCEPT !.pc = "idle"]
  /\ UNCHANGED <<streamRegistry, nextStreamId, files>>
  /\ OrderUnchanged

InitOrder ==
  /\ InitHostVars /\ IdleStreamVars /\ IdleFileVars
  /\ procs = NoRun

NextOrder ==
  \/ OpenStreamRegister
  \/ OpenStreamInstantiate
  \/ OpenStreamCall
  \/ OpenStreamClose
  \/ OpenStreamUnregister
  \/ CloseHandle
  \/ CloseUnregister
  \/ CloseModule

SpecOrder == InitOrder /\ [][NextOrder]_vars

(***************************************************************************)
(* The host's decoders on the bytes of guest memory (taglib.go:1138-1268). *)
(* The linear memory is a sequence of bytes; address a is its a-th byte    *)
(* and address 0 is the null pointer.  Memory().Read fails when the range  *)
(* it is asked for does not lie inside the memory.  procs holds the memory *)
(* and what the last call was given and returned.                          *)
(***************************************************************************)
MemSize == 8          \* bytes of linear memory
StringWindow == 2     \* readString's first window, scaled (64 in the build)

MemBytes == {NUL, 1, 2}

\* m.mod.Memory().Read(offset, count): [ok, bytes].
MemoryRead(mem, offset, count) ==
  IF offset + count - 1 > Len(mem)
  THEN [ok |-> FALSE, bytes |-> <<>>]
  ELSE [ok |-> TRUE, bytes |-> SubSeq(mem, offset, offset + count - 1)]

RECURSIVE ReadStringLoop(_, _, _, _, _)
\* The for loop of readString; chunks lists the memory reads made.
ReadStringLoop(mem, ptr, buf, size, chunks) ==
  LET next == MemoryRead(mem, ptr + size, size)
      i == IndexOf(next.bytes, NUL)
      cs == Append(chunks, [at |-> ptr + size, size |-> size])
  IN IF ~next.ok THEN [str |-> <<>>, chunks |-> cs, panic |-> TRUE]
     ELSE IF i > 0
     THEN [str |-> buf \o SubSeq(next.bytes, 1, i - 1), chunks |-> cs,
           panic |-> FALSE]
     ELSE ReadStringLoop(mem, ptr, buf \o next.bytes, size + size, cs)

\* readString(m, ptr): [str, chunks, panic].
readString(mem, ptr) ==
  LET first == MemoryRead(mem, ptr, StringWindow)
      i == IndexOf(first.bytes, NUL)
      cs == <<[at |-> ptr, size |-> StringWindow]>>
  IN IF ~first.ok THEN [str |-> <<>>, chunks |-> cs, panic |-> TRUE]
     ELSE IF i > 0
     THEN [str |-> SubSeq(first.bytes, 1, i - 1), chunks |-> cs,
           panic |-> FALSE]
     ELSE ReadStringLoop(mem, ptr, first.bytes, StringWindow, cs)

NoDecode == [op |-> "none", ptr |-> 0, str |-> <<>>, chunks |-> <<>>,
             panic |-> FALSE]

InitString ==
  /\ InitHostVars /\ IdleStreamVars /\ IdleFileVars
  /\ \E mem \in [1..MemSize -> MemBytes] :
       procs = [mem |-> mem, last |-> NoDecode]

\* The host decodes the NUL-terminated string at ptr.
ReadString ==
  /\ \E ptr \in 1..MemSize :
       /\ \E a \in ptr..MemSize : procs.mem[a] = NUL
       /\ LET r == readString(procs.mem, ptr)
          IN procs' = [procs EXCEPT !.last =
                         [op |-> "readString", ptr |-> ptr, str |-> r.str,
                          chunks |-> r.chunks, panic |-> r.panic]]
  /\ UNCHANGED <<hostVars, streamVars, fileVars>>

NextString == ReadString

SpecString == InitString /\ [][NextString]_vars

(***************************************************************************)
(* wasmStrings.encode and readStrings on the bytes of guest memory         *)
(* (taglib.go:1138-1161, 1230-1245).  A pointer slot is one cell of the    *)
(* memory here (four bytes, little endian, in the build).  The guest's     *)
(* malloc hands out the memory from brk upwards; what it hands out holds   *)
(* whatever was there before.  procs holds the memory, brk, and what the   *)
(* last call was given and returned.                                       *)
(***************************************************************************)
StringsMemSize == 10  \* bytes of linear memory
MaxStrings == 2       \* longest list encoded
MaxStringLen == 2     \* longest string encoded

\* The strings without a NUL byte, and the lists of them.
Strings == UNION {[1..n -> MemBytes \ {NUL}] : n \in 0..MaxStringLen}

StringLists == UNION {[1..n -> Strings] : n \in 0..MaxStrings}

\* m.malloc(size) when the guest allocates at brk: [ptr, brk].
mallocAt(brk, size) == [ptr |-> brk, brk |-> brk + size]

\* m.mod.Memory().Write(ptr, b)
MemoryWrite(mem, ptr, b) ==
  [a \in 1..Len(mem) |->
     IF a >= ptr /\ a < ptr + Len(b) THEN b[a - ptr + 1] ELSE mem[a]]

\* Bytes the encoding of s takes.
EncodedSize(s) == Len(s) + 1 + SumOf([i \in 1..Len(s) |-> Len(s[i]) + 1])

RECURSIVE EncodeLoop(_, _, _, _, _)
\* The range loop of wasmStrings.encode and the write of the last slot.
EncodeLoop(mem, brk, arrayPtr, s, i) ==
  IF i > Len(s)
  THEN [mem |-> MemoryWrite(mem, arrayPtr + Len(s), <<0>>), brk |-> brk,
        ptr |-> arrayPtr]
  ELSE LET b == Append(s[i], NUL)
           al == mallocAt(brk, Len(b))
           m1 == MemoryWrite(mem, al.ptr, b)
           m2 == MemoryWrite(m1, arrayPtr + (i - 1), <<al.ptr>>)
       IN EncodeLoop(m2, al.brk, arrayPtr, s, i + 1)

\* wasmStrings.encode: [mem, brk, ptr].
encode(mem, brk, s) ==
  LET al == mallocAt(brk, Len(s) + 1)
  IN EncodeLoop(mem, al.brk, al.ptr, s, 1)

RECURSIVE ReadStringsLoop(_, _, _)
\* readStrings on the bytes of the memory: [strs, panic].
ReadStringsLoop(mem, ptr, strs) ==
  LET slot == MemoryRead(mem, ptr, 1)
  IN IF ~slot.ok THEN [strs |-> strs, panic |-> TRUE]
     ELSE IF slot.bytes[1] = 0 THEN [strs |-> strs, panic |-> FALSE]
     ELSE LET str == readString(mem, slot.bytes[1])
          IN IF str.panic THEN [strs |-> strs, panic |-> TRUE]
             ELSE ReadStringsLoop(mem, ptr + 1, Append(strs, str.str))

NoStrings == [op |-> "none", ptr |-> 0, s |-> <<>>, strs |-> <<>>,
              panic |-> FALSE]

InitStrings ==
  /\ InitHostVars /\ IdleStreamVars /\ IdleFileVars
  /\ \E g \in MemBytes :
       procs = [mem |-> [a \in 1..StringsMemSize |-> g], brk |-> 1,
                last |-> NoStrings]

\* The host encodes the list s into memory the guest allocates.
EncodeStrings ==
  /\ \E s \in StringLists :
       /\ procs.brk + EncodedSize(s) - 1 <= Len(procs.mem)
       /\ LET e == encode(procs.mem, procs.brk, s)
          IN procs' = [mem |-> e.mem, brk |-> e.brk,
                       last |-> [NoStrings EXCEPT !.op = "encode",
                                                  !.ptr = e.ptr, !.s = s]]
  /\ UNCHANGED <<hostVars, streamVars, fileVars>>

\* The host decodes the array it encoded last.
DecodeStrings ==
  /\ procs.last.op = "encode"
  /\ LET d == ReadStringsLoop(procs.mem, procs.last.ptr, <<>>)
     IN procs' = [procs EXCEPT !.last.op = "decode", !.last.strs = d.strs,
                               !.last.panic = d.panic]
  /\ UNCHANGED <<hostVars, streamVars, fileVars>>

NextStrings ==
  \/ EncodeStrings
  \/ DecodeStrings

SpecStrings == InitStrings /\ [][NextStrings]_vars

(***************************************************************************)
(* The two result records: as the guest lays them out (taglib.cpp:265-268, *)
(* 440-448) and as the host decodes them (taglib.go:1163-1204).  A record  *)
(* is written into the bytes of the memory at address 1 and read from      *)
(* there; integers are little endian.  procs holds the memory, the record  *)
(* written last, its values and what the host decoded.                     *)
(***************************************************************************)
\* struct FileProperties and struct OpenResult: the members in the order
\* of declaration with their sizes on wasm32.
FileProperties ==
  <<[name |-> "lengthInMilliseconds", size |-> 4],
    [name |-> "channels", size |-> 4],
    [name |-> "sampleRate", size |-> 4],
    [name |-> "bitrate", size |-> 4],
    [name |-> "bitsPerSample", size |-> 4],
    [name |-> "imageMetadata", size |-> 4],
    [name |-> "codec", size |-> 4]>>

OpenResult ==
  <<[name |-> "handle", size |-> 4],
    [name |-> "format", size |-> 1]>>

\* off rounded up to a multiple of size.
AlignUp(off, size) == ((off + size - 1) \div size) * size

RECURSIVE OffsetOf(_, _)
\* The offset the compiler gives the i-th member: behind the member before
\* it, aligned to its own size.
OffsetOf(members, i) ==
  IF i = 1 THEN 0
  ELSE AlignUp(OffsetOf(members, i - 1) + members[i - 1].size,
               members[i].size)

MemberNames(members) == {members[i].name : i \in 1..Len(members)}

\* name -> [offset, width] of a struct.
LayoutOf(members) ==
  [n \in MemberNames(members) |->
     LET i == CHOOSE k \in 1..Len(members) : members[k].name = n
     IN [offset |-> OffsetOf(members, i), width |-> members[i].size]]

\* sizeof of a struct whose alignment is four.
SizeOf(members) ==
  AlignUp(OffsetOf(members, Len(members)) + members[Len(members)].size, 4)

\* wasmFileProperties.decode and wasmOpenResult.decode: what the host reads,
\* under the guest's names of the members (imageDescs is read from the
\* slot of imageMetadata).
wasmFileProperties ==
  [n \in {"lengthInMilliseconds", "channels", "sampleRate", "bitrate",
          "bitsPerSample", "imageMetadata"} |->
     [offset |-> CASE n = "lengthInMilliseconds" -> 0
                   [] n = "channels" -> 4
                   [] n = "sampleRate" -> 8
                   [] n = "bitrate" -> 12
                   [] n = "bitsPerSample" -> 16
                   [] n = "imageMetadata" -> 20,
      width |-> 4]]

wasmOpenResult ==
  [n \in {"handle", "format"} |->
     IF n = "handle" THEN [offset |-> 0, width |-> 4]
     ELSE [offset |-> 4, width |-> 1]]

\* An unsigned integer as width bytes, little endian, and back.
LittleEndian(v, width) == [k \in 1..width |-> (v \div (256 ^ (k - 1))) % 256]

RECURSIVE FromLittleEndian(_)
FromLittleEndian(bytes) ==
  IF bytes = <<>> THEN 0 ELSE bytes[1] + 256 * FromLittleEndian(Tail(bytes))

RECURSIVE StoreMembers(_, _, _, _)
\* The guest's assignments to the members of a record at address 1.
StoreMembers(mem, members, values, i) ==
  IF i > Len(members) THEN mem
  ELSE StoreMembers(
         MemoryWrite(mem, 1 + OffsetOf(members, i),
                     LittleEndian(values[members[i].name], members[i].size)),
         members, values, i + 1)

\* The host's reads of a record at address 1.
DecodeMembers(mem, reads) ==
  [n \in DOMAIN reads |->
     FromLittleEndian(SubSeq(mem, 1 + reads[n].offset,
                             reads[n].offset + reads[n].width))]

\* Values of a four-byte member and of a one-byte member.
WordValues == {1, 258}

ByteValues == {1, 2}

NoRecord == [kind |-> "none", values |-> <<>>, decoded |-> <<>>]

LayoutUnchanged == UNCHANGED <<hostVars, streamVars, fileVars>>

InitLayout ==
  /\ InitHostVars /\ IdleStreamVars /\ IdleFileVars
  /\ \E g \in {0, 255} :
       procs = [mem |-> [a \in 1..SizeOf(FileProperties) |-> g],
                rec |-> NoRecord]

\* read_file_properties fills a FileProperties.
WriteFileProperties ==
  /\ \E values \in [MemberNames(FileProperties) -> WordValues] :
       procs' = [mem |-> StoreMembers(procs.mem, FileProperties, values, 1),
                 rec |-> [NoRecord EXCEPT !.kind = "FileProperties",
                                          !.values = values]]
  /\ LayoutUnchanged

\* wasmFileProperties.decode
DecodeFileProperties ==
  /\ procs.rec.kind = "FileProperties" /\ procs.rec.decoded = <<>>
  /\ procs' = [procs EXCEPT !.rec.decoded =
                 DecodeMembers(procs.mem, wasmFileProperties)]
  /\ LayoutUnchanged

\* taglib_file_open and taglib_stream_open fill an OpenResult.
WriteOpenResult ==
  /\ \E handle \in WordValues, format \in ByteValues :
       LET values == [n \in MemberNames(OpenResult) |->
                        IF n = "handle" THEN handle ELSE format]
       IN procs' = [mem |-> StoreMembers(procs.mem, OpenResult, values, 1),
                    rec |-> [NoRecord EXCEPT !.kind = "OpenResult",
                                             !.values = values]]
  /\ LayoutUnchanged

\* wasmOpenResult.decode
DecodeOpenResult ==
  /\ procs.rec.kind = "OpenResult" /\ procs.rec.decoded = <<>>
  /\ procs' = [procs EXCEPT !.rec.decoded =
                 DecodeMembers(procs.mem, wasmOpenResult)]
  /\ LayoutUnchanged

NextLayout ==
  \/ WriteFileProperties
  \/ DecodeFileProperties
  \/ WriteOpenResult
  \/ DecodeOpenResult

SpecLayout == InitLayout /\ [][NextLayout]_vars

InitPath ==
  /\ InitHostVars /\ IdleStreamVars /\ IdleProcs
  /\ properties = EmptyMap /\ lastImage = NoImage /\ lastTags = NoTags
  /\ pictures \in InitialPictures

NextPath ==
  \/ ReadTagsOfPath
  \/ ReadProperties
  \/ ReadImageOfPath
  \/ ReadID3v2Frames
  \/ ReadID3v1Frames
  \/ ReadMP4Atoms
  \/ ReadASFAttributes
  \/ Open
  \/ OpenReadOnly

SpecPath == InitPath /\ [][NextPath]_vars

PathOps == {"ReadTags", "ReadProperties", "ReadImageOptions",
            "ReadID3v2Frames", "ReadID3v1Frames", "ReadMP4Atoms",
            "ReadASFAttributes", "Open", "OpenReadOnly"}

(***************************************************************************)
(* C5.  Every entry point that takes a path reports ErrInvalidFile, and    *)
(* returns no handle and no data, whenever the guest could not open the    *)
(* file as media and returned its null sentinel.                           *)
(***************************************************************************)
C5_InvalidFileReported ==
  (lastCall.op \in PathOps /\ lastCall.guestNull /\ lastCall.notMedia) =>
    /\ lastCall.err = "ErrInvalidFile"
    /\ lastCall.result \in {"none", "nil"}

\* s holds none of the characters the wire format gives a meaning to.
Plain(s, special) == \A i \in 1..Len(s) : s[i] \notin special

\* A tag set the rows can carry: keys without TAB or NUL, values without
\* VT or NUL.
Carried(T) ==
  \A k \in DOMAIN T :
    /\ Plain(k, {TAB, NUL})
    /\ \A i \in 1..Len(T[k]) : Plain(T[k][i], {VT, NUL})

\* A value list of which the guest sees a value: its join is not empty,
\* that is, it is neither empty nor the single empty string.
Valued(vs) == Join(vs, VT) # <<>>

WroteThenRead == lastTags.op = "WriteThenRead"

Cleared == lastTags.opts % 2 = CLEAR

MergeRules(set) ==
  LET T == lastTags.T
      prev == lastTags.prev
      read == lastTags.read
  IN /\ \A k \in (DOMAIN prev) \ (DOMAIN T) :
          IF Cleared THEN k \notin DOMAIN read
          ELSE k \in DOMAIN read /\ read[k] = prev[k]
     /\ \A k \in DOMAIN T :
          IF k \in set THEN k \in DOMAIN read /\ read[k] = T[k]
          ELSE k \notin DOMAIN read

NamedNonEmpty == {k \in DOMAIN lastTags.T : lastTags.T[k] # <<>>}

NamedValued == {k \in DOMAIN lastTags.T : Valued(lastTags.T[k])}

OnlySlotChanged(i) ==
  LET prev == lastImage.prev
      n == Len(lastImage.prev)
      inRange == 0 <= i /\ i < n
      empty == lastImage.image = <<>>
  IN /\ (empty /\ inRange) => pictures = Remove(prev, i)
     /\ (~empty /\ inRange) =>
          /\ Len(pictures) = n
          /\ pictures[i + 1].data = lastImage.image
          /\ \A j \in 1..n : j # i + 1 => pictures[j] = prev[j]
     /\ (empty /\ ~inRange) => pictures = prev

(***************************************************************************)
(* C9.  Writing an image at index i of a file holding n images changes     *)
(* only slot i: empty data and 0 <= i < n leave the n-1 other images in    *)
(* their order; non-empty data and 0 <= i < n replace slot i only; empty   *)
(* data and i out of range leave the list unchanged.                       *)
(***************************************************************************)
C9_WriteImageChangesOnlySlot ==
  lastImage.op = "WriteImage" => OnlySlotChanged(lastImage.index)

\* The same for the indexes a guest int holds.
WriteImageChangesOnlySlotInInt ==
  (lastImage.op = "WriteImage" /\ lastImage.index = ToInt(lastImage.index))
  => OnlySlotChanged(lastImage.index)

(***************************************************************************)
(* C10.  A read at an index outside [0, number of images) returns empty    *)
(* data and a nil error; so does every read, at whatever index, of a file  *)
(* from which every image has been removed.                                *)
(***************************************************************************)
C10_ReadOutOfRangeIsEmpty ==
  (/\ lastImage.op = "ReadImage"
   /\ (lastImage.index < 0 \/ lastImage.index >= Len(pictures)))
  => (lastImage.read = <<>> /\ lastCall.err = "nil")

\* The same for the indexes a guest int holds.
ReadOutOfRangeIsEmptyInInt ==
  (/\ lastImage.op = "ReadImage"
   /\ lastImage.index = ToInt(lastImage.index)
   /\ (lastImage.index < 0 \/ lastImage.index >= Len(pictures)))
  => (lastImage.read = <<>> /\ lastCall.err = "nil")

\* Every image was removed and a read at a negative index followed.
ReadAfterAllRemoved ==
  /\ lastImage.op = "ReadImage" /\ lastImage.n = 2
  /\ pictures = <<>> /\ lastImage.index < 0 /\ lastImage.read = <<>>

\* The ids returned so far are strictly increasing in the order returned.
IssuedIncreasing ==
  \A i, j \in 1..Len(procs.issued) :
    i < j => procs.issued[i] < procs.issued[j]

\* A caller that has looked its id up got the reader it registered, or
\* nothing once it has unregistered it.
LookupIsOwn ==
  \A p \in RegProcs :
    (procs.proc[p].pc = "idle" /\ procs.proc[p].got # "none") =>
      procs.proc[p].got = (IF procs.proc[p].held THEN procs.proc[p].r
                           ELSE "nil")

(***************************************************************************)
(* C13.  Under any interleaving of concurrent registerStream,              *)
(* unregisterStream and getStream calls, every registerStream returns an   *)
(* id strictly greater than every id returned before it (so no two         *)
(* registrations receive the same id), and getStream(id) returns the       *)
(* reader registered under that id, or nothing once it is unregistered.    *)
(***************************************************************************)
C13_RegistryIdsIncrease == IssuedIncreasing /\ LookupIsOwn

\* The same while the counter has not wrapped.
RegistryIdsIncreaseBeforeWrap ==
  Len(procs.issued) < IdMod => (IssuedIncreasing /\ LookupIsOwn)

\* Two callers hold registrations at once and one has looked its id up.
TwoRegistered ==
  /\ \A p \in RegProcs : procs.proc[p].held
  /\ \E p \in RegProcs : procs.proc[p].got = procs.proc[p].r

\* The id the last registerStream returned.
LastIssued(ps) == ps.issued[Len(ps.issued)]

(***************************************************************************)
(* C14.  registerStream never returns an id that is still present in the   *)
(* registry, however many registrations there have been, also after the    *)
(* id counter has wrapped around.                                          *)
(***************************************************************************)
C14_NoLiveIdReissued ==
  [][Len(procs'.issued) > Len(procs.issued) =>
       streamRegistry[LastIssued(procs')] = "nil"]_vars

\* The same while the counter has not wrapped.
NoLiveIdReissuedBeforeWrap ==
  [][(Len(procs'.issued) > Len(procs.issued) /\ Len(procs'.issued) < IdMod) =>
       streamRegistry[LastIssued(procs')] = "nil"]_vars

(***************************************************************************)
(* C15.  Within one instance the handles returned by successive            *)
(* successful opens are non-zero and strictly increasing: a handle value   *)
(* is never returned a second time, also after the file it named has been  *)
(* closed.                                                                 *)
(***************************************************************************)
C15_HandlesIncrease ==
  /\ \A i \in 1..Len(procs.issued) : procs.issued[i] # 0
  /\ \A i, j \in 1..Len(procs.issued) :
       i < j => procs.issued[i] < procs.issued[j]

\* An open that succeeded after every earlier handle had been closed.
OpenedAfterClose ==
  /\ procs.last.op \in {"taglib_file_open", "taglib_stream_open"}
  /\ Len(procs.issued) > 1
  /\ procs.last.handle = LastIssued(procs)
  /\ procs.last.before.g_handles = {}

\* The guest's side of it, on an instance that has opened files before:
\* an open that returns null leaves the instance as it was.
FailedOpenLeavesInstance ==
  (/\ procs.last.op \in {"taglib_file_open", "taglib_stream_open"}
   /\ procs.last.handle = 0)
  => mods[1] = procs.last.before

ReadOnlyEntryPoints ==
  {"OpenReadOnly", "ReadTags", "ReadID3v2Frames", "ReadID3v1Frames",
   "ReadMP4Atoms", "ReadASFAttributes", "ReadProperties", "ReadImage",
   "ReadImageOptions"}

(***************************************************************************)
(* C17.  The instance of a stream open has no mount.  The instance of an   *)
(* entry point that takes a path mounts the parent directory of the path   *)
(* and nothing else: read-only for OpenReadOnly and every Read function,   *)
(* writable for Open, WriteTags, WriteID3v2Frames, WriteImage and          *)
(* WriteImageOptions and for no other.                                     *)
(***************************************************************************)
C17_LeastPrivilegeMount ==
  procs.pc # "start" =>
    /\ procs.op = "OpenStream" => mods[1].mount = "none"
    /\ procs.op # "OpenStream" =>
         /\ mods[1].mount = procs.path.dir
         /\ mods[1].readOnly = (procs.op \in ReadOnlyEntryPoints)
         /\ ~mods[1].readOnly =>
              procs.op \in {"Open", "WriteTags", "WriteID3v2Frames",
                            "WriteImage", "WriteImageOptions"}

\* A Read function has made its instance on a directory other than the
\* one of the first file.
ReadOnlyMounted ==
  /\ procs.pc = "open" /\ procs.op = "ReadImage" /\ procs.path = OggPath
  /\ mods[1].readOnly /\ mods[1].mount = "/other"

(***************************************************************************)
(* C18.  For every export the host invokes it passes exactly the argument  *)
(* words the export declares, in the declared order: open-by-path gets     *)
(* (path, readStyle), open-by-stream (streamId, name, readStyle), close    *)
(* (handle), write-tags (handle, rows, options), write-image (handle,      *)
(* data, length, index, type, description, mime).                          *)
(***************************************************************************)
C18_ArgumentsMatchExport ==
  \A e \in lastCall.exports : lastCall.args[e] = GuestParams(e)

\* The same for every export but the two opens.
ArgumentsMatchExportButOpen ==
  \A e \in lastCall.exports \ {"taglib_file_open", "taglib_stream_open"} :
    lastCall.args[e] = GuestParams(e)

\* Every instance that exists and is not closed has its stream registered.
RegisteredWhileLive ==
  \A j \in 1..Len(mods) :
    ~mods[j].closed => getStream(streamRegistry, procs.ids[j]) # "nil"

(***************************************************************************)
(* C19.  The stream of a stream-backed File is registered before the       *)
(* File's instance is created and unregistered only after that instance    *)
(* has been closed, in File.Close and on every failure path of OpenStream: *)
(* whenever the instance exists and is not closed, the stream is           *)
(* registered.                                                             *)
(***************************************************************************)
C19_RegisteredAroundInstance == RegisteredWhileLive

\* The same in the states of OpenStream and between the calls.
RegisteredAroundInstanceInOpenStream ==
  procs.pc \notin {"close_unregister", "close_mod"} => RegisteredWhileLive

\* The ids that have an entry in the stream registry.
RegistryKeys == {id \in DOMAIN streamRegistry : streamRegistry[id] # "nil"}

\* The Files OpenStream has returned and that have not been closed.
OpenStreamFiles ==
  {i \in 1..Len(files) :
     mods[files[i].mod].mount = "none" /\ files[i].nCloseCalls = 0}

RegistryMatchesOpenFiles ==
  RegistryKeys = {files[i].streamId : i \in OpenStreamFiles}

(***************************************************************************)
(* C20.  After any sequence of OpenStream and File.Close calls the keys of *)
(* the stream registry are exactly the stream ids of the Files that        *)
(* OpenStream has returned and that have not been closed.                  *)
(***************************************************************************)
C20_RegistryIsOpenStreamFiles == RegistryMatchesOpenFiles

\* The same between the calls of a goroutine that registers fewer streams
\* than the id counter has values.
RegistryIsOpenStreamFilesBeforeWrap ==
  procs.pc = "idle" => RegistryMatchesOpenFiles

OpenOps == {"OpenStream", "Open", "OpenReadOnly"}

(***************************************************************************)
(* C2.  File.Close is idempotent: a second or later Close on a File        *)
(* returns nil, invokes no export, unregisters no stream and closes no     *)
(* instance; so however often a File is closed, the guest close export is  *)
(* invoked at most once for it, its stream is unregistered at most once    *)
(* and its instance is closed exactly once.                                *)
(***************************************************************************)
C2_CloseIsIdempotent ==
  /\ \A i \in 1..Len(files) :
       files[i].nCloseCalls >= 1 =>
         /\ mods[files[i].mod].nClosed = 1
         /\ mods[files[i].mod].nGuestClose <= 1
         /\ files[i].nUnreg <= 1
  /\ (lastCall.op = "Close" /\ lastCall.afterClose) =>
       /\ lastCall.err = "nil"
       /\ lastCall.exports = {}
       /\ lastCall.sameLive
       /\ lastCall.sameReg

\* A File opened from a stream has been closed twice.
ClosedTwice ==
  /\ lastCall.op = "Close"
  /\ lastCall.afterClose
  /\ files[lastCall.file].nCloseCalls = 2
  /\ files[lastCall.file].nUnreg = 1

(***************************************************************************)
(* C3.  An OpenStream, Open or OpenReadOnly that returns no File leaves    *)
(* the set of live instances and the stream registry as they were before   *)
(* the call, on every exit path: failed instantiation, failed export call, *)
(* zero handle, and an abort while the arguments are encoded.              *)
(***************************************************************************)
C3_FailedOpenReleasesAll ==
  (lastCall.op \in OpenOps /\ lastCall.result # "file") =>
    /\ lastCall.sameLive
    /\ lastCall.sameReg

(***************************************************************************)
(* C7.  After File.Close has returned, no operation on that File invokes   *)
(* an exported function of the closed instance.                            *)
(***************************************************************************)
(* C16.  When the guest cannot make a file reference of the path or the    *)
(* stream it is given, its open export returns null: the instance's        *)
(* handle table and handle counter are as before the call and no stream    *)
(* wrapper is left; the host returns ErrInvalidFile and no File.           *)
(***************************************************************************)
C16_FailedOpenConsumesNothing ==
  (lastCall.op \in OpenOps /\ lastCall.guestNull) =>
    /\ lastCall.err = "ErrInvalidFile"
    /\ lastCall.result = "none" /\ lastCall.file = 0
    /\ mods[Len(mods)].g_handles = {}
    /\ mods[Len(mods)].g_nextHandle = newModuleForStream.g_nextHandle
    /\ mods[Len(mods)].nStreams = 0

\* An OpenStream on a reader that holds no media has failed.
StreamOpenRefused ==
  /\ lastCall.op = "OpenStream" /\ lastCall.guestNull /\ lastCall.notMedia
  /\ lastCall.err = "ErrInvalidFile"

(***************************************************************************)
C7_NoExportAfterClose ==
  /\ closedCalls = {}
  /\ lastCall.afterClose => lastCall.closedExports = {}

\* What a direct, unbuffered read of n bytes at offset p returns.
DirectRead(p, n) ==
  SrcBytes(p, Min(n, IF p >= srcLen THEN 0 ELSE srcLen - p))

(***************************************************************************)
(* C1.  Every readBlock returns exactly the bytes source[p .. min(p+n,     *)
(* length)), p being the logical position before the call, i.e. what a     *)
(* direct read of the source returns, and advances the position by the     *)
(* number of bytes returned.                                               *)
(***************************************************************************)
C1_ReadBlockIsDirectRead ==
  lastIO.op = "read" =>
    /\ lastIO.result = DirectRead(lastIO.p, lastIO.n)
    /\ m_position = lastIO.p + Len(lastIO.result)

\* The same statement for the sources whose length a size_t can hold.
ReadBlockIsDirectReadInSizeT ==
  (lastIO.op = "read" /\ srcLen < SizeMod) =>
    /\ lastIO.result = DirectRead(lastIO.p, lastIO.n)
    /\ m_position = lastIO.p + Len(lastIO.result)

\* A read that started inside the cached window and ended outside it.
StraddlingRead ==
  /\ lastIO.op = "read"
  /\ lastIO.inWindow
  /\ lastIO.refills > 0
  /\ Len(lastIO.result) = lastIO.n

WriteOps == {"writeBlock", "insert", "removeBlock", "truncate"}

(***************************************************************************)
(* C12.  On a stream, writeBlock, insert, removeBlock and truncate invoke  *)
(* no host callback and leave the bytes and the length of the source, the  *)
(* logical position and the cached window as they were; readOnly() is      *)
(* true in every state.                                                    *)
(***************************************************************************)
C12_WriteSideIsNoOp ==
  /\ [](m_readOnly)
  /\ [][lastIO'.op \in WriteOps =>
         /\ lastIO'.reads = 0 /\ lastIO'.refills = 0
         /\ UNCHANGED <<srcLen, srcPos, m_position, m_length, m_buffer,
                        m_bufStart, m_bufLen>>]_vars

\* A write-side call on a stream that has a window and a position in it.
WroteInsideWindow ==
  /\ lastIO.op \in WriteOps /\ lastIO.inWindow
  /\ m_position > 0 /\ m_bufLen > 0


\* The cached window is no larger than BUFFER_SIZE.
WindowBounded == m_bufLen <= BUFFER_SIZE /\ Len(m_buffer.data) <= BUFFER_SIZE

\* A non-empty window holds the source's bytes [m_bufStart, m_bufStart +
\* m_bufLen).
WindowHoldsSourceBytes ==
  m_bufLen > 0 =>
    /\ m_bufStart >= 0 /\ m_bufStart + m_bufLen <= srcLen
    /\ SubSeq(m_buffer.data, 1, m_bufLen) = SrcBytes(m_bufStart, m_bufLen)

\* A read that asks for bytes at a position outside the window refills at
\* that position, and the window a refill installs starts where the refill
\* was made.
MissReplacesWindow ==
  lastIO.op = "read" =>
    /\ (lastIO.n > 0 /\ lastIO.p < m_length /\ ~lastIO.inWindow) =>
         (lastIO.refills > 0 /\ lastIO.starts[1] = lastIO.p)
    /\ (lastIO.refills > 0 /\ ~lastIO.refillFailed) =>
         m_bufStart = lastIO.starts[Len(lastIO.starts)]

(***************************************************************************)
(* C21.  In every reachable state the cached window holds at most          *)
(* BUFFER_SIZE bytes and, when it is not empty, the bytes of the source in *)
(* the range [m_bufStart, m_bufStart + m_bufLen); a read at a position     *)
(* outside that range replaces the window with one that starts at the      *)
(* read position.                                                          *)
(***************************************************************************)
C21_WindowIsSourceRange ==
  WindowBounded /\ WindowHoldsSourceBytes /\ MissReplacesWindow

\* The window over a reader that never fails.
WindowIsSourceRangeOfSoundReader == WindowBounded /\ WindowHoldsSourceBytes

(***************************************************************************)
(* C22.  When a refill obtains zero bytes (end of the source, a Read that  *)
(* failed, an id that is not registered) readBlock returns the bytes       *)
(* copied so far, fewer than were asked for, and the position has advanced *)
(* by as many; a Read that fails without a byte is reported to the guest   *)
(* as 0 bytes.                                                             *)
(***************************************************************************)
C22_ZeroRefillIsShortRead ==
  /\ (lastIO.op = "read" /\ lastIO.refillFailed) =>
       /\ Len(lastIO.result) = SumOf(lastIO.copies)
       /\ Len(lastIO.result) < lastIO.n
       /\ m_position = lastIO.p + Len(lastIO.result)
  /\ \A pos \in 0..srcLen, length \in 1..BUFFER_SIZE :
       LET r == hostStreamRead([Sound(1) EXCEPT !.readErr = 1], pos, length, 1)
       IN r.n = 0 /\ r.data = <<>>

\* A read that copied bytes from the window and then met a refill without
\* bytes, the stream being registered.
ShortReadAfterFailedRefill ==
  /\ lastIO.op = "read" /\ lastIO.refillFailed /\ lastIO.found
  /\ Len(lastIO.result) > 0

\* The bytes a read returned are the source's bytes from the position the
\* read started at.
ReturnedSourceBytes ==
  lastIO.op = "read" =>
    /\ lastIO.p + Len(lastIO.result) <= srcLen
    /\ lastIO.result = SrcBytes(lastIO.p, Len(lastIO.result))

(***************************************************************************)
(* C23.  Every byte readBlock returns for position p is the source's byte  *)
(* at offset p, also when the host seek of a refill reports failure: the   *)
(* window a refill installs after a failed seek does not hold bytes read   *)
(* at another offset.                                                      *)
(***************************************************************************)
C23_ReturnedBytesAreSourceBytes ==
  /\ ReturnedSourceBytes
  /\ (lastIO.op = "read" /\ lastIO.seekErr /\ lastIO.refills > 0
      /\ ~lastIO.refillFailed) => WindowHoldsSourceBytes

\* The same over a reader that never fails.
ReturnedBytesAreSourceBytesOfSoundReader == ReturnedSourceBytes

C25_PositionWithinLength ==
  /\ 0 <= m_position /\ m_position <= m_length
  /\ lastIO.op = "seek" => (lastIO.reads = 0 /\ lastIO.refills = 0)

\* The same for the streams whose length the host could tell.
PositionWithinLengthIfKnown == m_length >= 0 => C25_PositionWithinLength

\* A stream whose length the host could not tell, after a seek.
SoughtWithoutLength == m_length < 0 /\ lastIO.op = "seek"

(***************************************************************************)
(* C26.  A host callback called with an id that is not registered calls    *)
(* no method of any reader, writes nothing to guest memory and returns     *)
(* the failure value: read 0 bytes, seek a non-zero status, tell and       *)
(* length -1.                                                              *)
(***************************************************************************)
C26_UnregisteredIdTouchesNothing ==
  (lastIO.op # "none" /\ ~lastIO.registered) =>
    /\ ~lastIO.touched
    /\ srcPos = lastIO.before
    /\ lastIO.data = <<>>
    /\ lastIO.op = "read" => lastIO.n = 0
    /\ lastIO.op = "seek" => lastIO.status # 0
    /\ lastIO.op = "tell" => lastIO.pos64 = 0 - 1
    /\ lastIO.op = "length" => lastIO.len = 0 - 1

\* A read callback for an id that was registered and is so no longer, the
\* source having bytes left.
ReadAfterUnregister ==
  /\ lastIO.op = "read" /\ ~lastIO.registered
  /\ lastIO.id # 0 /\ lastIO.id < nextStreamId
  /\ srcPos < srcLen

\* The callers that are inside r.Read or r.Seek.
InSource(ps) == {p \in RegProcs : ps[p].pc = "source"}

StringAt(mem, ptr) ==
  LET nul == CHOOSE a \in ptr..Len(mem) :
               mem[a] = NUL /\ \A b \in ptr..(a - 1) : mem[b] # NUL
  IN SubSeq(mem, ptr, nul - 1)

\* The memory reads of a readString: the first of StringWindow bytes at
\* ptr, every other starting where the one before ended and as long as all
\* the reads before it together.
ChunksDouble(ptr, chunks) ==
  /\ chunks[1] = [at |-> ptr, size |-> StringWindow]
  /\ \A k \in 2..Len(chunks) :
       /\ chunks[k].at = chunks[k - 1].at + chunks[k - 1].size
       /\ chunks[k].size = chunks[k].at - ptr

ReadStringReturnsString ==
  /\ procs.last.str = StringAt(procs.mem, procs.last.ptr)
  /\ ChunksDouble(procs.last.ptr, procs.last.chunks)
  /\ Len(procs.last.str) < StringWindow => Len(procs.last.chunks) = 1

(***************************************************************************)
(* C28.  For every NUL-terminated string inside guest memory readString    *)
(* returns the bytes before the first NUL; it reads a first window of      *)
(* StringWindow bytes and then contiguous chunks that double the window,   *)
(* and a string shorter than the first window costs one memory read.       *)
(***************************************************************************)
C28_ReadStringReturnsString ==
  procs.last.op = "readString" =>
    (~procs.last.panic /\ ReadStringReturnsString)

\* The same for the strings whose windows lie inside the memory.
ReadStringReturnsStringInsideMemory ==
  (procs.last.op = "readString" /\ ~procs.last.panic) =>
    ReadStringReturnsString

\* A string of three reads was decoded.
LongStringRead ==
  /\ procs.last.op = "readString" /\ ~procs.last.panic
  /\ Len(procs.last.chunks) = 3

\* What was decoded is what was encoded.
DecodedIsEncoded ==
  /\ procs.last.strs = procs.last.s
  /\ procs.mem[procs.last.ptr + Len(procs.last.s)] = 0
  /\ \A i \in 1..Len(procs.last.s) :
       /\ procs.mem[procs.last.ptr + i - 1] # 0
       /\ StringAt(procs.mem, procs.mem[procs.last.ptr + i - 1])
            = procs.last.s[i]

(***************************************************************************)
(* C29.  A list of strings without NUL bytes, encoded into guest memory    *)
(* and decoded with the string-array reader, comes back as the same        *)
(* strings in the same order: the array has one slot per string and a      *)
(* zero slot after them, every string is NUL-terminated, and the empty     *)
(* list decodes to the empty list.                                         *)
(***************************************************************************)
C29_StringsRoundTrip ==
  procs.last.op = "decode" => (~procs.last.panic /\ DecodedIsEncoded)

\* The same when readString's windows lie inside the memory.
StringsRoundTripInsideMemory ==
  (procs.last.op = "decode" /\ ~procs.last.panic) => DecodedIsEncoded

\* Two strings, one of them as long as readString's first window, were
\* encoded into memory that held other bytes, and decoded.
TwoStringsDecoded ==
  /\ procs.last.op = "decode" /\ ~procs.last.panic
  /\ Len(procs.last.s) = 2
  /\ \E i \in 1..2 : Len(procs.last.s[i]) = StringWindow
  /\ procs.mem[Len(procs.mem)] # NUL

\* The host reads the member n of the guest's struct at the member's
\* offset and width.
ReadWhereWritten(members, reads, n) ==
  n \in DOMAIN reads /\ reads[n] = LayoutOf(members)[n]

\* The guest's offsets are the ones the host's decoders are written for.
GuestOffsets ==
  /\ [n \in MemberNames(FileProperties) |->
        LayoutOf(FileProperties)[n].offset]
       = [lengthInMilliseconds |-> 0, channels |-> 4, sampleRate |-> 8,
          bitrate |-> 12, bitsPerSample |-> 16, imageMetadata |-> 20,
          codec |-> 24]
  /\ [n \in MemberNames(OpenResult) |-> LayoutOf(OpenResult)[n].offset]
       = [handle |-> 0, format |-> 4]

\* What the host decoded of the record written last is what the guest
\* wrote, member by member.
DecodedWhatWasWritten ==
  procs.rec.decoded # <<>> =>
    \A n \in DOMAIN procs.rec.decoded :
      procs.rec.decoded[n] = procs.rec.values[n]

(***************************************************************************)
(* C30.  The host decodes the properties record and the open result at     *)
(* the offsets at which the guest lays the members out (0, 4, 8, 12, 16,   *)
(* 20 and 24; 0 and 4), and every member the guest writes is read by the   *)
(* host at the same offset and width.                                      *)
(***************************************************************************)
C30_HostReadsGuestLayout ==
  /\ GuestOffsets
  /\ DecodedWhatWasWritten
  /\ \A n \in MemberNames(FileProperties) :
       ReadWhereWritten(FileProperties, wasmFileProperties, n)
  /\ \A n \in MemberNames(OpenResult) :
       ReadWhereWritten(OpenResult, wasmOpenResult, n)

\* The same for every member but the codec name.
HostReadsGuestLayoutButCodec ==
  /\ GuestOffsets
  /\ DecodedWhatWasWritten
  /\ \A n \in MemberNames(FileProperties) \ {"codec"} :
       ReadWhereWritten(FileProperties, wasmFileProperties, n)
  /\ \A n \in MemberNames(OpenResult) :
       ReadWhereWritten(OpenResult, wasmOpenResult, n)

\* A properties record with a codec name was decoded.
PropertiesDecoded ==
  /\ procs.rec.kind = "FileProperties" /\ procs.rec.decoded # <<>>
  /\ procs.rec.values["codec"] # 0

=============================================================================
